---- MODULE Spec2Model ----
(***************************************************************************)
(* Mission state machine of Newton's Space Drift (GameScene.ts) together   *)
(* with the pieces it drives: the scene clock (time.addEvent /             *)
(* time.delayedCall), the tweens whose onComplete callbacks change state,  *)
(* the level transition overlays and the player mass.  The educational     *)
(* overlay only displays messages: nothing the mission does reads it, and  *)
(* its show/hide calls are left out of this specification.                 *)
(*                                                                         *)
(* Time is in milliseconds, as in the source.  One rendered frame is:      *)
(*   FrameStart   the clock and the tween manager advance by FrameDelta    *)
(*   TimerFire    the looping 1000 ms game timer, first in the clock list  *)
(*   DelayedFire  the due delayed calls, in the order they were added      *)
(*   TweenFire    the onComplete of the due tweens                         *)
(*   SceneUpdate  GameScene.update(time, delta)                            *)
(* Input handlers (the continue key of a transition overlay, the mobile    *)
(* rescue button) run between frames.                                      *)
(*                                                                         *)
(* The player's position is not integrated here: what attemptRescue reads  *)
(* from it (which un-rescued targets are closer than 60, whether the       *)
(* station is closer than 80) is an input of every tick.                   *)
(*                                                                         *)
(* Fuel is stored in units of 1/FuelScale, so that the consumption of one  *)
(* thrusting tick, 0.5 * delta * 0.01, is the integer delta.               *)
(***************************************************************************)
EXTENDS Integers, Sequences, FiniteSets, TLC

VARIABLES
  level, score, fuel, timeRemaining, gameStarted, totalAstronautsRescued,
  rescueTargets, towedAstronauts, mass, mobileRescue,
  timerElapsed, delayed, tweens, transition, endMessage, paused,
  pc, frames, outcome, rescues, failScheduled, calls, effects, tick,
  pod, structure, bodies, gravity, educationalOverlay

vars == <<level, score, fuel, timeRemaining, gameStarted, totalAstronautsRescued,
          rescueTargets, towedAstronauts, mass, mobileRescue,
          timerElapsed, delayed, tweens, transition, endMessage, paused,
          pc, frames, outcome, rescues, failScheduled, calls, effects, tick,
          pod, structure, bodies, gravity, educationalOverlay>>

\* the state of the mission specification
mission == <<level, score, fuel, timeRemaining, gameStarted, totalAstronautsRescued,
             rescueTargets, towedAstronauts, mass, mobileRescue,
             timerElapsed, delayed, tweens, transition, endMessage, paused,
             pc, frames, outcome, rescues, failScheduled, calls, effects, tick>>

\* the state of the components that the mission specification leaves out:
\* the player's motion, the momentum structures, a pair of colliding bodies,
\* a gravity well with the trajectory predicted through it, the educational
\* overlay
parts == <<pod, structure, bodies, gravity, educationalOverlay>>

----------------------------------------------------------------------------
(* Bounds of the model *)

\* frames explored from an initial state
MaxFrames == 12
\* active targets left in a level at an initial state (at most the level's count)
MaxStartTargets == 3
\* seconds left on the countdown at an initial state
MaxStartTime == 2
\* the targets that can be within rescue range at once are among the last
\* MaxInRange of the active array
MaxInRange == 2
\* elapsed time of one frame, in ms
FrameDelta == 100
\* ticks with a thrust key held that are explored per tank of fuel
MaxThrustTicks == 1

----------------------------------------------------------------------------
(* Program constants *)

RescueBonus == 100
DeliveryBonus == 50
MassIncrement == 2
BaseMass == 1
Level1Targets == 8
Level2Targets == 5
Level3Targets == 6
Level1Time == 120
Level2Time == 180
Level3Time == 240
FuelPoints == 100
FuelScale == 200
TimerDelay == 1000
LevelCompleteDelay == 500
TransitionTweenDuration == 200
GameWinDelay == 200
WinPauseDelay == 100
GameOverDelay == 200

FuelFull == FuelPoints * FuelScale

\* the fuel left at an initial state: the player has thrust its way to the
\* targets delivered so far
StartFuel == FuelFull \div 2

\* a tank that the next two thrusting ticks empty
LowFuel == FrameDelta + FrameDelta \div 2

Max(a, b) == IF a >= b THEN a ELSE b

Min(a, b) == IF a <= b THEN a ELSE b

\* createRescueTargets: the number of positions of a level
TargetCount(l) ==
  IF l = 1 THEN Level1Targets
  ELSE IF l = 2 THEN Level2Targets
  ELSE IF l = 3 THEN Level3Targets
  ELSE 0

\* createRescueTargets: one new target per position, pushed in order; a target
\* is named by the index of its position
createRescueTargets(l) == [i \in 1..TargetCount(l) |-> i]

\* the time budget a level starts with
LevelTime(l) == IF l = 1 THEN Level1Time ELSE IF l = 2 THEN Level2Time ELSE Level3Time

----------------------------------------------------------------------------
(* The scene as one record, so that the methods are functions of it *)

Scene ==
  [level |-> level, score |-> score, fuel |-> fuel, timeRemaining |-> timeRemaining,
   gameStarted |-> gameStarted, totalAstronautsRescued |-> totalAstronautsRescued,
   rescueTargets |-> rescueTargets, towedAstronauts |-> towedAstronauts,
   mass |-> mass, mobileRescue |-> mobileRescue,
   timerElapsed |-> timerElapsed, delayed |-> delayed, tweens |-> tweens,
   transition |-> transition, endMessage |-> endMessage,
   paused |-> paused, outcome |-> outcome, rescues |-> rescues,
   failScheduled |-> failScheduled, calls |-> calls, effects |-> effects]

Commit(S) ==
  /\ level' = S.level
  /\ score' = S.score
  /\ fuel' = S.fuel
  /\ timeRemaining' = S.timeRemaining
  /\ gameStarted' = S.gameStarted
  /\ totalAstronautsRescued' = S.totalAstronautsRescued
  /\ rescueTargets' = S.rescueTargets
  /\ towedAstronauts' = S.towedAstronauts
  /\ mass' = S.mass
  /\ mobileRescue' = S.mobileRescue
  /\ timerElapsed' = S.timerElapsed
  /\ delayed' = S.delayed
  /\ tweens' = S.tweens
  /\ transition' = S.transition
  /\ endMessage' = S.endMessage
  /\ paused' = S.paused
  /\ outcome' = S.outcome
  /\ rescues' = S.rescues
  /\ failScheduled' = S.failScheduled
  /\ calls' = S.calls
  /\ effects' = S.effects

\* an entry of the clock's list: a delayed call
Event(kind, delay, lvl) == [kind |-> kind, rem |-> delay, lvl |-> lvl]

\* time.delayedCall(delay, callback)
delayedCall(S, kind, delay) ==
  [S EXCEPT !.delayed = Append(@, Event(kind, delay, S.level))]

\* tweens.add({duration, onComplete})
addTween(S, kind, duration) ==
  [S EXCEPT !.tweens = Append(@, [kind |-> kind, rem |-> duration])]

----------------------------------------------------------------------------
(* State-changing transition methods of GameScene.  Bookkeeping of the     *)
(* model: calls counts the calls of these four methods in the current      *)
(* frame (the caller counts), effects those that got past the guard,       *)
(* outcome is "won" / "failed" once gameWin / gameOver has taken effect,   *)
(* failScheduled counts the 'Mission Failed' actions scheduled.            *)

\* a call site of a transition method
called(S) == [S EXCEPT !.calls = @ + 1]

advanceToLevel2(S) ==
  IF ~S.gameStarted THEN S
  ELSE [S EXCEPT !.gameStarted = FALSE, !.effects = @ + 1,
                 !.transition = "overlay2"]

advanceToLevel3(S) ==
  IF ~S.gameStarted THEN S
  ELSE [S EXCEPT !.gameStarted = FALSE, !.effects = @ + 1,
                 !.transition = "overlay3"]

\* gameWin that leaves the level running
gameWin_keepsRunning(S) ==
  IF ~S.gameStarted THEN S
  ELSE delayedCall([S EXCEPT !.effects = @ + 1, !.outcome = "won"],
                   "winShow", GameWinDelay)

gameWin(S) ==
  IF ~S.gameStarted THEN S
  ELSE delayedCall([S EXCEPT !.gameStarted = FALSE, !.effects = @ + 1,
                             !.outcome = "won"],
                   "winShow", GameWinDelay)

\* gameOver without its first line
gameOver_unguarded(S) ==
  delayedCall([S EXCEPT !.gameStarted = FALSE, !.effects = @ + 1,
                        !.outcome = "failed", !.failScheduled = @ + 1],
              "failShow", GameOverDelay)

\* gameOver that forgets to clear gameStarted
gameOver_keepsRunning(S) ==
  IF ~S.gameStarted THEN S
  ELSE delayedCall([S EXCEPT !.effects = @ + 1,
                             !.outcome = "failed", !.failScheduled = @ + 1],
                   "failShow", GameOverDelay)

gameOver(S) ==
  IF ~S.gameStarted THEN S
  ELSE delayedCall([S EXCEPT !.gameStarted = FALSE, !.effects = @ + 1,
                             !.outcome = "failed", !.failScheduled = @ + 1],
                   "failShow", GameOverDelay)

----------------------------------------------------------------------------
(* PlayerPod: mass and fuel *)

increaseMass(m, amount) == m + amount

\* a reset that leaves the mass as it is
resetMass_keeps(m) == m

resetMass(m) == BaseMass

\* a consumption without the floor
consumeFuel_noFloor(f, amount) == f - amount

\* GameScene.consumeFuel
consumeFuel(f, amount) == Max(0, f - amount)

\* PlayerPod.update, as far as the mission state goes: thrust is applied only
\* with fuel left, and a thrusting tick consumes 0.5 * delta * 0.01
playerUpdate(S, delta, thrustKey) ==
  LET hasFuel == S.fuel > 0
      isThrusting == hasFuel /\ thrustKey
  IN IF isThrusting THEN [S EXCEPT !.fuel = consumeFuel(@, delta)] ELSE S

----------------------------------------------------------------------------
(* Rescue and delivery *)

Range(seq) == {seq[i] : i \in 1..Len(seq)}

\* Array.splice(i, 1)
splice(seq, i) == [j \in 1..(Len(seq) - 1) |-> IF j < i THEN seq[j] ELSE seq[j + 1]]

\* RescueTarget.isRescued: the flag is set by rescue(), which attemptRescue
\* calls on the target it moves to the towed array
isRescued(S, t) == t \in Range(S.towedAstronauts)

\* the loop of attemptRescue: from the last index down, the first target that
\* is not rescued and closer than rescueRange; 0 when there is none
RECURSIVE findRescue(_, _, _)
findRescue(S, i, nearTargets) ==
  IF i = 0 THEN 0
  ELSE IF ~isRescued(S, S.rescueTargets[i]) /\ S.rescueTargets[i] \in nearTargets
       THEN i
       ELSE findRescue(S, i - 1, nearTargets)

\* the targets of a list from the last to the first
RECURSIVE reversed(_)
reversed(seq) ==
  IF seq = <<>> THEN <<>> ELSE Append(reversed(Tail(seq)), Head(seq))

\* the loop of attemptRescue without its break: every target in range is towed
rescueStep_noBreak(S, nearTargets) ==
  LET InRange(t) == ~isRescued(S, t) /\ t \in nearTargets
      Left(t) == ~InRange(t)
      moved == reversed(SelectSeq(S.rescueTargets, InRange))
  IN [S EXCEPT !.score = @ + Len(moved) * RescueBonus,
               !.rescueTargets = SelectSeq(@, Left),
               !.towedAstronauts = @ \o moved,
               !.mass = increaseMass(@, Len(moved) * MassIncrement),
               !.rescues = @ + Len(moved)]

\* a first half that does not look at the distance: the last target that is
\* not rescued is towed
rescueStep_anyRange(S, nearTargets) ==
  LET i == findRescue(S, Len(S.rescueTargets), Range(S.rescueTargets))
  IN IF i = 0 THEN S
     ELSE [S EXCEPT !.score = @ + RescueBonus,
                    !.rescueTargets = splice(@, i),
                    !.towedAstronauts = Append(@, S.rescueTargets[i]),
                    !.mass = increaseMass(@, MassIncrement),
                    !.rescues = @ + 1]

\* a rescue that leaves the target in the active array as well
rescueStep_noSplice(S, nearTargets) ==
  LET i == findRescue(S, Len(S.rescueTargets), nearTargets)
  IN IF i = 0 THEN S
     ELSE [S EXCEPT !.score = @ + RescueBonus,
                    !.towedAstronauts = Append(@, S.rescueTargets[i]),
                    !.mass = increaseMass(@, MassIncrement),
                    !.rescues = @ + 1]

\* first half of attemptRescue: tow at most one target
rescueStep(S, nearTargets) ==
  LET i == findRescue(S, Len(S.rescueTargets), nearTargets)
  IN IF i = 0 THEN S
     ELSE LET S1 == [S EXCEPT !.score = @ + RescueBonus,
                              !.rescueTargets = splice(@, i),
                              !.towedAstronauts = Append(@, S.rescueTargets[i]),
                              !.mass = increaseMass(@, MassIncrement),
                              !.rescues = @ + 1]
          IN S1

\* a delivery whose bonus does not count the targets
deliverStep_flatBonus(S, nearStation) ==
  IF nearStation /\ Len(S.towedAstronauts) > 0
  THEN [S EXCEPT !.totalAstronautsRescued = @ + Len(S.towedAstronauts),
                 !.score = @ + DeliveryBonus,
                 !.towedAstronauts = <<>>,
                 !.mass = resetMass(@)]
  ELSE S

\* second half of attemptRescue: deliver every towed target at the station
deliverStep(S, nearStation) ==
  IF nearStation /\ Len(S.towedAstronauts) > 0
  THEN LET delivered == Len(S.towedAstronauts)
           S1 == [S EXCEPT !.totalAstronautsRescued = @ + delivered,
                           !.score = @ + delivered * DeliveryBonus,
                           !.towedAstronauts = <<>>,
                           !.mass = resetMass(@)]
       IN S1
  ELSE S

\* an attempt that returns once it has towed a target
attemptRescue_returnsAfterRescue(S, nearTargets, nearStation) ==
  IF rescueStep(S, nearTargets) # S
  THEN rescueStep(S, nearTargets)
  ELSE deliverStep(S, nearStation)

attemptRescue(S, nearTargets, nearStation) ==
  deliverStep(rescueStep(S, nearTargets), nearStation)

\* handleInput, rescue action: SPACE just pressed or the mobile rescue flag
handleInput(S, justDown, nearTargets, nearStation) ==
  IF justDown \/ S.mobileRescue
  THEN [attemptRescue(S, nearTargets, nearStation) EXCEPT !.mobileRescue = FALSE]
  ELSE S

----------------------------------------------------------------------------
(* Timer, win/lose check and the delayed callbacks *)

\* the callback of startGameTimer
timerCallback(S) ==
  LET S1 == [S EXCEPT !.timeRemaining = @ - 1]
  IN IF S1.timeRemaining <= 0 THEN gameOver(called(S1)) ELSE S1

\* the callback with the two-way test of the first revision of the scene:
\* every level after the first ends the mission
levelCompleteCallback_twoLevels(S) ==
  IF S.level = 1 THEN advanceToLevel2(called(S))
  ELSE gameWin(called(S))

\* the callback checkGameState schedules
levelCompleteCallback(S) ==
  IF S.level = 1 THEN advanceToLevel2(called(S))
  ELSE IF S.level = 2 THEN advanceToLevel3(called(S))
  ELSE gameWin(called(S))

checkGameState(S) ==
  LET S1 == IF Len(S.rescueTargets) = 0 /\ Len(S.towedAstronauts) = 0
            THEN delayedCall(S, "levelComplete", LevelCompleteDelay)
            ELSE S
  IN IF S1.timeRemaining <= 0 THEN gameOver(called(S1)) ELSE S1

\* the callback of gameWin's delayed call
winShowCallback(S) ==
  delayedCall([S EXCEPT !.endMessage = "Mission Complete!"], "winPause", WinPauseDelay)

\* scene.pause()
pause(S) == [S EXCEPT !.paused = TRUE]

\* the callback of gameOver's delayed call
failShowCallback(S) == [pause(S) EXCEPT !.endMessage = "Mission Failed"]

\* the callback of a clock entry
fire(S, ev) ==
  IF ev.kind = "levelComplete" THEN levelCompleteCallback(S)
  ELSE IF ev.kind = "winShow" THEN winShowCallback(S)
  ELSE IF ev.kind = "winPause" THEN pause(S)
  ELSE failShowCallback(S)

\* GameScene.update
update(S, delta, justDown, thrustKey, nearTargets, nearStation) ==
  IF ~S.gameStarted THEN S
  ELSE checkGameState(
         playerUpdate(handleInput(S, justDown, nearTargets, nearStation),
                      delta, thrustKey))

----------------------------------------------------------------------------
(* Level transition overlays *)

\* advanceLevel, the handler of SPACE / pointerdown of a transition overlay:
\* removes its listeners and starts the exit animation
advanceLevel(S) ==
  IF S.transition = "overlay2"
  THEN addTween([S EXCEPT !.transition = "exit2"], "advance2", TransitionTweenDuration)
  ELSE addTween([S EXCEPT !.transition = "exit3"], "advance3", TransitionTweenDuration)

\* a set-up of level 2 that keeps the tank and what is in tow
setupLevel2_keepsLoad(S) ==
  [S EXCEPT !.transition = "none",
            !.level = 2,
            !.timeRemaining = Level2Time,
            !.rescueTargets = createRescueTargets(2),
            !.gameStarted = TRUE]

\* onComplete of the exit animation of the level 1 overlay
setupLevel2(S) ==
  [S EXCEPT !.transition = "none",
            !.level = 2,
            !.timeRemaining = Level2Time,
            !.fuel = FuelFull,
            !.rescueTargets = createRescueTargets(2),
            !.towedAstronauts = <<>>,
            !.mass = resetMass(@),
            !.gameStarted = TRUE]

\* a level 3 set-up that starts the score of the level at 0
setupLevel3_newScore(S) ==
  [S EXCEPT !.transition = "none",
            !.level = 3,
            !.score = 0,
            !.timeRemaining = Level3Time,
            !.fuel = FuelFull,
            !.rescueTargets = createRescueTargets(3),
            !.towedAstronauts = <<>>,
            !.mass = resetMass(@),
            !.gameStarted = TRUE]

\* onComplete of the exit animation of the level 2 overlay
setupLevel3(S) ==
  [S EXCEPT !.transition = "none",
            !.level = 3,
            !.timeRemaining = Level3Time,
            !.fuel = FuelFull,
            !.rescueTargets = createRescueTargets(3),
            !.towedAstronauts = <<>>,
            !.mass = resetMass(@),
            !.gameStarted = TRUE]

\* the onComplete of a tween
complete(S, tw) ==
  IF tw.kind = "advance2" THEN setupLevel2(S) ELSE setupLevel3(S)

----------------------------------------------------------------------------
(* The clock *)

TimerDue == timerElapsed >= TimerDelay

\* index of the first due entry of a list, 0 if none
RECURSIVE dueFrom(_, _)
dueFrom(seq, i) ==
  IF i > Len(seq) THEN 0
  ELSE IF seq[i].rem <= 0 THEN i
  ELSE dueFrom(seq, i + 1)

DueIndex(seq) == dueFrom(seq, 1)

advance(seq, delta) == [i \in 1..Len(seq) |-> [seq[i] EXCEPT !.rem = @ - delta]]

\* what a tick can find within rescue range: any of the last MaxInRange
\* targets of the active array
NearChoices(targets) ==
  SUBSET {targets[i] : i \in Max(1, Len(targets) - MaxInRange + 1)..Len(targets)}

\* whether a thrust key can be down on this tick: on the first MaxThrustTicks
\* thrusting ticks after an initial state and after a refill
ThrustChoices(S) ==
  IF \/ S.fuel > FuelFull - MaxThrustTicks * FrameDelta
     \/ S.fuel <= StartFuel /\ S.fuel > StartFuel - MaxThrustTicks * FrameDelta
     \/ S.fuel <= LowFuel
  THEN BOOLEAN ELSE {FALSE}

\* the station's distance is drawn on the ticks where the player tows a
\* target or attempts a rescue
StationChoices(S, justDown) ==
  IF S.gameStarted /\ (justDown \/ S.mobileRescue \/ Len(S.towedAstronauts) > 0)
  THEN BOOLEAN ELSE {FALSE}

\* the targets' distances are drawn on the ticks with a rescue attempt
TargetChoices(S, justDown) ==
  IF S.gameStarted /\ (justDown \/ S.mobileRescue)
  THEN NearChoices(S.rescueTargets) ELSE {{}}

NoTick ==
  [ran |-> FALSE, attempt |-> FALSE, inRange |-> 0, station |-> FALSE,
   carried |-> 0, rescued |-> 0, delivered |-> 0, thrusting |-> FALSE]

----------------------------------------------------------------------------
(* Initial states: a level in progress.  Some targets of the level are      *)
(* already delivered (150 points each, like all targets of the levels       *)
(* before), the fuel is half burnt or nearly all, nothing is towed, the     *)
(* countdown shows the last seconds of the level's budget.                  *)

DeliveredBefore(l) == IF l = 1 THEN 0 ELSE TargetCount(l - 1) + (IF l = 3 THEN TargetCount(1) ELSE 0)

\* a level is running, or the last level is running with the tank nearly
\* empty, or level 1 is complete and its transition overlay has been waiting
\* for the player, the game timer one frame before its next firing
Init ==
  /\ level \in 1..3
  /\ timeRemaining \in 1..MaxStartTime
  /\ \/ /\ \E n \in 1..MaxStartTargets :
             rescueTargets = [i \in 1..Min(n, TargetCount(level)) |-> i]
        /\ gameStarted = TRUE
        /\ transition = "none"
        /\ timerElapsed = 0
        /\ fuel = StartFuel
     \/ /\ level = 3
        /\ \E n \in 1..MaxStartTargets :
             rescueTargets = [i \in 1..Min(n, TargetCount(level)) |-> i]
        /\ gameStarted = TRUE
        /\ transition = "none"
        /\ timerElapsed = 0
        /\ fuel = LowFuel
     \/ /\ level = 1
        /\ timeRemaining = 1
        /\ rescueTargets = <<>>
        /\ gameStarted = FALSE
        /\ transition = "overlay2"
        /\ timerElapsed = TimerDelay - FrameDelta
        /\ fuel = StartFuel
  /\ totalAstronautsRescued
       = DeliveredBefore(level) + TargetCount(level) - Len(rescueTargets)
  /\ score = (RescueBonus + DeliveryBonus) * totalAstronautsRescued
  /\ rescues = totalAstronautsRescued
  /\ towedAstronauts = <<>>
  /\ mass = BaseMass
  /\ mobileRescue = FALSE
  /\ delayed = <<>>
  /\ tweens = <<>>
  /\ endMessage = "none"
  /\ paused = FALSE
  /\ pc = "idle"
  /\ frames = 0
  /\ outcome = "none"
  /\ failScheduled = 0
  /\ calls = 0
  /\ effects = 0
  /\ tick = NoTick
  /\ pod = "none"
  /\ structure = "none"
  /\ bodies = "none"
  /\ gravity = "none"
  /\ educationalOverlay = "none"

----------------------------------------------------------------------------
(* Actions *)

\* the scene's clock and tween manager advance by the frame's delta
FrameStart ==
  /\ pc = "idle"
  /\ ~paused
  /\ frames < MaxFrames
  /\ Commit([Scene EXCEPT !.timerElapsed = @ + FrameDelta,
                          !.delayed = advance(@, FrameDelta),
                          !.tweens = advance(@, FrameDelta),
                          !.calls = 0,
                          !.effects = 0])
  /\ pc' = "frame"
  /\ tick' = NoTick
  /\ UNCHANGED frames
  /\ UNCHANGED parts

\* the looping game timer fires
TimerFire ==
  /\ pc = "frame"
  /\ TimerDue
  /\ Commit(timerCallback([Scene EXCEPT !.timerElapsed = @ - TimerDelay]))
  /\ UNCHANGED <<pc, frames, tick>>
  /\ UNCHANGED parts

\* the first due delayed call fires and leaves the list
DelayedFire ==
  /\ pc = "frame"
  /\ ~TimerDue
  /\ DueIndex(delayed) # 0
  /\ LET i == DueIndex(delayed)
     IN Commit(fire([Scene EXCEPT !.delayed = splice(@, i)], delayed[i]))
  /\ UNCHANGED <<pc, frames, tick>>
  /\ UNCHANGED parts

\* the first due tween completes
TweenFire ==
  /\ pc = "frame"
  /\ ~TimerDue
  /\ DueIndex(delayed) = 0
  /\ DueIndex(tweens) # 0
  /\ LET i == DueIndex(tweens)
     IN Commit(complete([Scene EXCEPT !.tweens = splice(@, i)], tweens[i]))
  /\ UNCHANGED <<pc, frames, tick>>
  /\ UNCHANGED parts

\* GameScene.update(time, delta), the last step of the frame.  Its inputs:
\* whether SPACE was just pressed, whether a thrust key is down, and what the
\* player's position is close to (read by attemptRescue only)
SceneUpdate ==
  /\ pc = "frame"
  /\ ~TimerDue
  /\ DueIndex(delayed) = 0
  /\ DueIndex(tweens) = 0
  /\ \E justDown \in (IF gameStarted THEN BOOLEAN ELSE {FALSE}),
        thrustKey \in (IF gameStarted THEN ThrustChoices(Scene) ELSE {FALSE}) :
       \E nearStation \in StationChoices(Scene, justDown),
          nearTargets \in TargetChoices(Scene, justDown) :
         LET S1 == update(Scene, FrameDelta, justDown, thrustKey, nearTargets, nearStation)
         IN /\ Commit(S1)
            /\ tick' = IF ~gameStarted THEN NoTick
                       ELSE [ran |-> TRUE,
                             attempt |-> justDown \/ mobileRescue,
                             inRange |-> Cardinality(nearTargets),
                             station |-> nearStation,
                             carried |-> Len(towedAstronauts),
                             rescued |-> S1.rescues - rescues,
                             delivered |-> S1.totalAstronautsRescued - totalAstronautsRescued,
                             thrusting |-> thrustKey /\ fuel > 0]
  /\ pc' = "idle"
  /\ frames' = frames + 1
  /\ UNCHANGED parts

\* the player presses SPACE (or clicks) on a level transition overlay
PressContinue ==
  /\ pc = "idle"
  /\ ~paused
  /\ transition \in {"overlay2", "overlay3"}
  /\ Commit(advanceLevel(Scene))
  /\ UNCHANGED <<pc, frames, tick>>
  /\ UNCHANGED parts

\* GameScene.setMobileControl('rescue', active): the RESCUE button and the
\* timeout that releases it
SetMobileControl ==
  /\ pc = "idle"
  /\ ~paused
  /\ \E active \in BOOLEAN :
       /\ active # mobileRescue
       /\ Commit([Scene EXCEPT !.mobileRescue = active])
  /\ UNCHANGED <<pc, frames, tick>>
  /\ UNCHANGED parts

Next ==
  \/ FrameStart
  \/ TimerFire
  \/ DelayedFire
  \/ TweenFire
  \/ SceneUpdate
  \/ PressContinue
  \/ SetMobileControl

Spec == Init /\ [][Next]_vars

----------------------------------------------------------------------------
(* Properties *)

\* a step in which one of advanceToLevel2, advanceToLevel3, gameWin and
\* gameOver is called while gameStarted is false
GuardedCall == calls' > calls /\ ~gameStarted

\* what the step of a guarded call does besides the call: the timer takes its
\* second off and rewinds, a fired delayed call leaves the clock's list
OwnWork ==
  IF TimerDue
  THEN /\ timeRemaining' = timeRemaining - 1
       /\ timerElapsed' = timerElapsed - TimerDelay
       /\ delayed' = delayed
  ELSE /\ timeRemaining' = timeRemaining
       /\ timerElapsed' = timerElapsed
       /\ delayed' = splice(delayed, DueIndex(delayed))

\* C1: a call of advanceToLevel2, advanceToLevel3, gameWin or gameOver made
\* while gameStarted is false changes nothing (the step does only its own
\* work: no level change, no new delayed call, no overlay, no outcome), and
\* of all such calls made in one frame at most one takes effect.
C1_GuardedOnce ==
  /\ [](effects <= 1)
  /\ [][GuardedCall =>
         /\ OwnWork
         /\ UNCHANGED <<level, score, fuel, gameStarted, totalAstronautsRescued,
                        rescueTargets, towedAstronauts, mass, tweens, transition,
                        endMessage, paused, outcome, failScheduled, effects>>]_vars

\* C1 witness: two calls in one frame (the timer's gameOver and a due
\* level-complete callback), one of which took effect
C1_Witness == calls >= 2 /\ effects = 1

\* a step in which advanceToLevel2, advanceToLevel3 or gameWin takes effect
AdvanceOrWinTakesEffect == effects' > effects /\ outcome' # "failed"

\* a step in which a level-complete callback fires in a later level than the
\* one that scheduled it
StaleCallbackFires ==
  /\ pc = "frame" /\ ~TimerDue /\ DueIndex(delayed) # 0
  /\ delayed[DueIndex(delayed)].kind = "levelComplete"
  /\ delayed[DueIndex(delayed)].lvl < level

\* C2: a level advance or the Won transition takes effect only in a state
\* where the active and the towed set are both empty, and a level-complete
\* callback scheduled in level N that fires in level N+1 is skipped.
C2_OnlyWhenComplete ==
  [][/\ AdvanceOrWinTakesEffect =>
          rescueTargets = <<>> /\ towedAstronauts = <<>>
     /\ StaleCallbackFires =>
          UNCHANGED <<level, gameStarted, transition, outcome, effects>>]_vars

\* the 'Mission Failed' actions waiting in the clock's list
FailShowPending == {i \in 1..Len(delayed) : delayed[i].kind = "failShow"}

\* C3: when the countdown runs out in a running level, Failed is entered on
\* that step, and it is entered once: one 'Mission Failed' action is ever
\* scheduled, however many calls of gameOver follow.
C3_FailedOnce ==
  /\ [](failScheduled <= 1 /\ Cardinality(FailShowPending) <= 1)
  /\ [][(gameStarted /\ timeRemaining > 0 /\ timeRemaining' <= 0) =>
          /\ outcome' = "failed"
          /\ failScheduled' = 1
          /\ Cardinality(FailShowPending') = 1]_vars

\* C3 witness: the countdown ran out, the frame went on with update() and the
\* one scheduled action has shown 'Mission Failed'
C3_Witness ==
  /\ timeRemaining <= 0
  /\ outcome = "failed"
  /\ failScheduled = 1
  /\ endMessage = "Mission Failed"

\* a step in which the 1-second timer fires
TimerFires == pc = "frame" /\ TimerDue

\* C4: every firing of the 1-second timer takes exactly 1 off timeRemaining,
\* and from any state of level 1, 2 or 3 in which the mission is neither Won
\* nor Failed, timeRemaining reaching 0 makes the mission Failed.
C4_TimeoutFails ==
  [][/\ TimerFires => timeRemaining' = timeRemaining - 1
     /\ (level \in 1..3 /\ outcome = "none"
           /\ timeRemaining > 0 /\ timeRemaining' <= 0) => outcome' = "failed"]_vars

\* level 3 is complete and its countdown has not run out
Level3Complete ==
  /\ level = 3
  /\ rescueTargets = <<>> /\ towedAstronauts = <<>>
  /\ timeRemaining > 0
  /\ outcome = "none"

\* C5: once the active and the towed set of level 3 are empty with
\* timeRemaining above 0, the mission does not become Failed, whatever the
\* order of the timer and the frame updates that follow.
C5_CompleteNeverFails ==
  [][Level3Complete => outcome' # "failed"]_vars

DeliveredNow == totalAstronautsRescued' - totalAstronautsRescued

RescuedNow == rescues' - rescues

\* C7: a delivery of k >= 1 towed targets is one step that adds exactly 50*k
\* to the score, empties the towed set and resets the mass to 1; the score is
\* 100 per rescue plus 50 per delivered target in every state, so 3 rescues
\* and their delivery add 450 in whatever order the attempts come.
C7_AtomicDelivery ==
  /\ [](score = RescueBonus * rescues + DeliveryBonus * totalAstronautsRescued)
  /\ [][DeliveredNow # 0 =>
          /\ DeliveredNow = Len(towedAstronauts) + RescuedNow
          /\ score' = score + RescueBonus * RescuedNow + DeliveryBonus * DeliveredNow
          /\ towedAstronauts' = <<>>
          /\ mass' = BaseMass]_vars

\* C7 witness: the last 3 targets of level 1 were rescued and are delivered
\* together on this tick: 450 more than the 5 * 150 the level started with
C7_Witness ==
  /\ level = 1
  /\ tick.delivered = 3
  /\ rescueTargets = <<>>
  /\ score = (RescueBonus + DeliveryBonus) * (Level1Targets - 3) + 450

\* C8, as the claim states it: on any tick of a running level with at least
\* one towed target and the player in proximity of the station, all towed
\* targets are delivered on that tick.
C8_DeliveredAtStation ==
  (tick.ran /\ tick.carried >= 1 /\ tick.station) =>
     towedAstronauts = <<>> /\ tick.delivered >= tick.carried

\* C8: on a tick of a running level with a rescue attempt (SPACE just
\* pressed or the mobile rescue flag set), at least one towed target and the
\* player in proximity of the station, all towed targets are delivered on
\* that tick; a tick without a rescue attempt delivers nothing.
C8_DeliveredOnAttempt ==
  /\ (tick.ran /\ tick.attempt /\ tick.carried >= 1 /\ tick.station) =>
        /\ towedAstronauts = <<>>
        /\ tick.delivered = tick.carried + tick.rescued
  /\ (tick.ran /\ ~tick.attempt) =>
        /\ tick.delivered = 0
        /\ Len(towedAstronauts) = tick.carried

\* C8 witness: a tick with an attempt at the station that delivered the two
\* targets in tow
C8_Witness ==
  /\ tick.ran /\ tick.attempt /\ tick.station
  /\ tick.carried = 2
  /\ tick.delivered >= 2

\* C9: a rescue attempt moves at most one target from the active to the
\* towed set and adds at most one rescue bonus of 100, even with several
\* un-rescued targets in range.
C9_OneRescuePerAttempt ==
  /\ [](tick.rescued \in {0, 1})
  /\ [][(pc = "frame" /\ pc' = "idle" /\ gameStarted) =>
          /\ RescuedNow \in {0, 1}
          /\ Len(rescueTargets') = Len(rescueTargets) - RescuedNow
          /\ Len(towedAstronauts') + DeliveredNow = Len(towedAstronauts) + RescuedNow
          /\ score' - DeliveryBonus * DeliveredNow = score + RescueBonus * RescuedNow]_vars

\* C9 witness: an attempt with two targets in range towed one of them and
\* left the other active
C9_Witness ==
  /\ tick.attempt
  /\ tick.inRange >= 2
  /\ tick.rescued = 1
  /\ Len(rescueTargets) >= 1

\* C10: in every state the player mass is 1 + 2 * (number of towed targets),
\* after rescues, deliveries and level advances alike.
C10_MassOfTowed == mass = BaseMass + MassIncrement * Len(towedAstronauts)

\* C10 witness: two targets in tow
C10_Witness == Len(towedAstronauts) = 2 /\ mass = 5

----------------------------------------------------------------------------
(* The player's motion: the directional part of GameScene.handleInput and  *)
(* PlayerPod.update.  Lengths are in 1/VelScale px and velocities in        *)
(* 1/VelScale of the source's unit, which keeps thrust / mass an integer    *)
(* for the masses 1, 3 and 5; the deltas are multiples of 100 ms.           *)

VelScale == 15
StationX == 400
StationY == 300
rescueRange == 60
stationRange == 80
maxVelocity == 200

GameWidth == 2 * StationX

GameHeight == 2 * StationY

\* the velocity that thrusterForce (0.3) gives one unit of mass in 100 ms:
\* 0.3 * 100 * 0.1
thrusterForce == 3 * VelScale

\* the positions of level 1 in createRescueTargets
Level1Positions ==
  << <<121, 480>>, <<750, 150>>, <<530, 310>>, <<120, 150>>,
     <<615, 520>>, <<250, 225>>, <<555, 80>>, <<390, 410>> >>

Directions == {"up", "down", "left", "right"}

\* handleInput, directions: every flag but rescue is reset, then the flag of
\* each key that is down is set
handleInputControls(mobileControls, keys) ==
  LET reset == [d \in Directions |-> FALSE]
  IN [d \in Directions |-> IF d \in keys THEN TRUE ELSE reset[d]]

\* GameScene.setMobileControl(control, active) for a direction
setMobileControl(mobileControls, control, active) ==
  [mobileControls EXCEPT ![control] = active]

\* Phaser.Math.Distance.Between(...) < range, on scaled lengths
Near(px, py, qx, qy, range) ==
  (px - qx) * (px - qx) + (py - qy) * (py - qy)
    < (range * VelScale) * (range * VelScale)

\* attemptRescue: the active targets closer than rescueRange to the player
NearTargets(P, targets) ==
  {t \in Range(targets) :
     Near(P.x, P.y, Level1Positions[t][1] * VelScale,
          Level1Positions[t][2] * VelScale, rescueRange)}

\* attemptRescue: the station is closer than stationRange to the player
NearStation(P) ==
  Near(P.x, P.y, StationX * VelScale, StationY * VelScale, stationRange)

\* Math.sqrt, rounded down: a binary search between lo and hi.  The middle
\* is handed on as a value, which keeps the cost of the search linear in its
\* depth also where an action is tested for being enabled.
RECURSIVE sqrtFrom(_, _, _)
sqrtFrom(n, lo, hi) ==
  IF lo >= hi THEN lo
  ELSE LET half(mid) ==
             IF mid * mid <= n THEN sqrtFrom(n, mid, hi) ELSE sqrtFrom(n, lo, mid - 1)
       IN CHOOSE r \in {half(mid) : mid \in {(lo + hi + 1) \div 2}} : TRUE

sqrt(n) == sqrtFrom(n, 0, 2 * maxVelocity * VelScale)

\* a thrust vector that does not look at the tank
currentThrust_noGate(hasFuel, controls) ==
  [x |-> IF controls["right"] THEN thrusterForce
         ELSE IF controls["left"] THEN -thrusterForce
         ELSE 0,
   y |-> IF controls["down"] THEN thrusterForce
         ELSE IF controls["up"] THEN -thrusterForce
         ELSE 0]

\* PlayerPod.update: the thrust vector of the tick
currentThrust(hasFuel, controls) ==
  [x |-> IF ~hasFuel THEN 0
         ELSE IF controls["right"] THEN thrusterForce
         ELSE IF controls["left"] THEN -thrusterForce
         ELSE 0,
   y |-> IF ~hasFuel THEN 0
         ELSE IF controls["down"] THEN thrusterForce
         ELSE IF controls["up"] THEN -thrusterForce
         ELSE 0]

\* a limit that clamps each component on its own
limitVelocity_perAxis(v) ==
  LET top == maxVelocity * VelScale
      clamp(c) == IF c > top THEN top ELSE IF c < -top THEN -top ELSE c
  IN [x |-> clamp(v.x), y |-> clamp(v.y)]

\* PlayerPod.update: the limit on the speed
limitVelocity(v) ==
  LET speed2 == v.x * v.x + v.y * v.y
      speed == sqrt(speed2)
      top == maxVelocity * VelScale
  IN IF speed2 > top * top
     THEN [x |-> (v.x * top) \div speed, y |-> (v.y * top) \div speed]
     ELSE v

\* PlayerPod.wrapAroundScreen, one coordinate
wrap(c, size) ==
  IF c < 0 THEN size * VelScale
  ELSE IF c > size * VelScale THEN 0
  ELSE c

\* PlayerPod.update(delta, controls) with getFuel() = fuelNow and mass m
PodUpdate(P, fuelNow, m, delta, controls) ==
  LET hasFuel == fuelNow > 0
      thrust == currentThrust(hasFuel, controls)
      units == delta \div 100
      v == limitVelocity([x |-> P.vx + (thrust.x * units) \div m,
                          y |-> P.vy + (thrust.y * units) \div m])
  IN [P EXCEPT !.thrust = thrust,
               !.isThrusting = hasFuel /\ (\E d \in Directions : controls[d]),
               !.vx = v.x,
               !.vy = v.y,
               !.x = wrap(P.x + v.x * units, GameWidth),
               !.y = wrap(P.y + v.y * units, GameHeight)]

----------------------------------------------------------------------------
(* The ticks of a flight: level 1 with targets 1 and 3 left, target 2 in    *)
(* tow, the pod on the station's row 85 px from it, drifting or at rest,     *)
(* the tank empty or nearly so.  The clock is left out: no timer fires       *)
(* during the ticks explored.                                                *)

\* ticks explored from an initial state
MaxPodTicks == 1
\* directions held on the touch controls at once
MaxHeld == 1

\* elapsed time of a tick, in ms
PodDeltas == {100, 200}

\* fuel at an initial state, in 1/FuelScale
PodStartFuel == {0, LowFuel}

\* velocity along the row at an initial state
PodStartVx == {0, -10, -maxVelocity}

\* the keys that are down during a tick
KeyChoices == {{}, {"left"}, {"up"}, {"down", "right"}, Directions}

\* SPACE is drawn on the ticks where an attempt has something to act on
SpaceChoices(P, S) ==
  IF Len(S.towedAstronauts) > 0 \/ NearTargets(P, S.rescueTargets) # {}
  THEN BOOLEAN ELSE {FALSE}

NoStep ==
  [ran |-> FALSE, fuel |-> 0, controls |-> [d \in Directions |-> FALSE],
   held |-> {}, vx |-> 0, vy |-> 0, attempt |-> FALSE, carried |-> 0,
   delivered |-> 0, rescued |-> 0, nearBefore |-> FALSE, nearAfter |-> FALSE,
   inRangeBefore |-> 0, inRangeAfter |-> 0]

InitPod ==
  /\ level = 1
  /\ rescueTargets = <<1, 3>>
  /\ towedAstronauts = <<2>>
  /\ totalAstronautsRescued = Level1Targets - 3
  /\ rescues = Level1Targets - 2
  /\ score = RescueBonus * rescues + DeliveryBonus * totalAstronautsRescued
  /\ mass = BaseMass + MassIncrement
  /\ fuel \in PodStartFuel
  /\ timeRemaining = Level1Time \div 2
  /\ gameStarted = TRUE
  /\ mobileRescue = FALSE
  /\ timerElapsed = 0
  /\ delayed = <<>>
  /\ tweens = <<>>
  /\ transition = "none"
  /\ endMessage = "none"
  /\ paused = FALSE
  /\ pc = "idle"
  /\ frames = 0
  /\ outcome = "none"
  /\ failScheduled = 0
  /\ calls = 0
  /\ effects = 0
  /\ tick = NoTick
  /\ \E v \in PodStartVx :
       pod = [x |-> (StationX + stationRange + 5) * VelScale,
              y |-> StationY * VelScale,
              vx |-> v * VelScale, vy |-> 0,
              thrust |-> [x |-> 0, y |-> 0], isThrusting |-> FALSE,
              mobileControls |-> [d \in Directions |-> FALSE],
              held |-> {}, ticks |-> 0, last |-> NoStep]
  /\ structure = "none"
  /\ bodies = "none"
  /\ gravity = "none"
  /\ educationalOverlay = "none"

\* GameScene.update(time, delta) with the player's motion: handleInput reads
\* the keys and the player's position, then PlayerPod.update moves the player
PodTick ==
  /\ pod.ticks < MaxPodTicks
  /\ gameStarted
  /\ \E keys \in KeyChoices, justDown \in SpaceChoices(pod, Scene), delta \in PodDeltas :
       LET controls == handleInputControls(pod.mobileControls, keys)
           thrustKey == \E d \in Directions : controls[d]
           nearTargets == NearTargets(pod, rescueTargets)
           nearStation == NearStation(pod)
           S0 == handleInput(Scene, justDown, nearTargets, nearStation)
           S1 == update(Scene, delta, justDown, thrustKey, nearTargets, nearStation)
           P1 == PodUpdate(pod, S0.fuel, S0.mass, delta, controls)
       IN /\ Commit(S1)
          /\ pod' = [P1 EXCEPT
                       !.mobileControls = controls,
                       !.ticks = @ + 1,
                       !.last = [ran |-> TRUE, fuel |-> fuel, controls |-> controls,
                                 held |-> pod.held, vx |-> pod.vx, vy |-> pod.vy,
                                 attempt |-> justDown \/ mobileRescue,
                                 carried |-> Len(towedAstronauts),
                                 delivered |-> S1.totalAstronautsRescued
                                                 - totalAstronautsRescued,
                                 rescued |-> S1.rescues - rescues,
                                 nearBefore |-> nearStation,
                                 nearAfter |-> NearStation(P1),
                                 inRangeBefore |-> Cardinality(nearTargets),
                                 inRangeAfter |->
                                   Cardinality(NearTargets(P1, rescueTargets))]]
  /\ UNCHANGED <<pc, frames, tick, structure, bodies, gravity, educationalOverlay>>

\* a touch control is pressed or released between two ticks
SetDirectionControl ==
  /\ pod.ticks < MaxPodTicks
  /\ \E control \in Directions, active \in BOOLEAN :
       /\ active # (control \in pod.held)
       /\ active => Cardinality(pod.held) < MaxHeld
       /\ pod' = [pod EXCEPT
                    !.mobileControls = setMobileControl(@, control, active),
                    !.held = IF active THEN @ \cup {control} ELSE @ \ {control}]
  /\ UNCHANGED <<mission, structure, bodies, gravity, educationalOverlay>>

NextPod ==
  \/ PodTick
  \/ SetDirectionControl

SpecPod == InitPod /\ [][NextPod]_vars

\* a step that is a tick of the flight
PodTicks == pod'.ticks = pod.ticks + 1

\* C11: on every tick that starts with fuel = 0, whatever keys are down, the
\* thrust vector is (0,0), isThrusting() is false, the velocity is what it
\* was and no fuel is consumed.
C11_EmptyTankNoThrust ==
  [][(PodTicks /\ fuel = 0) =>
       /\ pod'.thrust = [x |-> 0, y |-> 0]
       /\ ~pod'.isThrusting
       /\ pod'.vx = pod.vx /\ pod'.vy = pod.vy
       /\ fuel' = 0]_vars

\* C11 witness: a tick that started with an empty tank, a moving pod and all
\* four keys down
C11_Witness ==
  /\ pod.last.ran
  /\ pod.last.fuel = 0
  /\ \A d \in Directions : pod.last.controls[d]
  /\ pod.last.vx # 0
  /\ ~pod.isThrusting

\* a step that is a tick of a running level
RunningTick == pc = "frame" /\ pc' = "idle" /\ gameStarted

C13_TimeNotNegative == timeRemaining >= 0

\* C14: the step that completes a level advance re-seeds the level: after the
\* advance to level 2 timeRemaining = 180 and there are 5 active targets,
\* after the advance to level 3 timeRemaining = 240 and there are 6; in both
\* fuel = 100, nothing is towed, the mass is 1 and the score is what it was.
C14_AdvanceResets ==
  [][level' # level =>
       /\ timeRemaining' = (IF level' = 2 THEN Level2Time ELSE Level3Time)
       /\ Len(rescueTargets') = (IF level' = 2 THEN Level2Targets ELSE Level3Targets)
       /\ fuel' = FuelFull
       /\ towedAstronauts' = <<>>
       /\ mass' = BaseMass
       /\ score' = score
       /\ gameStarted']_vars

\* C14 witness: level 3 has just been set up after a run through level 2
C14_Witness ==
  /\ level = 3
  /\ timeRemaining = Level3Time
  /\ Len(rescueTargets) = Level3Targets
  /\ fuel = FuelFull
  /\ pc = "frame"

\* C15: within a tick the player's motion is integrated before the mission
\* bookkeeping, so the rescue and the delivery decision of a tick are those
\* of the player's position after the integration of that tick.
C15_DecisionsAfterIntegration ==
  (pod.last.ran /\ pod.last.attempt) =>
     /\ (pod.last.rescued > 0) <=> (pod.last.inRangeAfter > 0)
     /\ (pod.last.delivered > 0) <=>
          (pod.last.nearAfter /\ pod.last.carried + pod.last.rescued > 0)

\* C16: a direction set with setMobileControl(dir, true) and not released is
\* consumed by the next tick of the running level: with fuel left,
\* PlayerPod.update receives the flag as true and the player thrusts.
C16_HeldDirectionThrusts ==
  [][(PodTicks /\ fuel > 0) =>
       \A d \in pod.held : pod'.last.controls[d] /\ pod'.isThrusting]_vars

\* ---------------------------------------------------------------------
\* Momentum structures: MomentumTransferGate, MomentumBoostZone and
\* MovingPlatform, each with its own cooldown
\* ---------------------------------------------------------------------

\* no timer progress, no pending callback, no overlay: a level just begun
MissionIdle ==
  /\ gameStarted = TRUE
  /\ mobileRescue = FALSE
  /\ timerElapsed = 0
  /\ delayed = <<>>
  /\ tweens = <<>>
  /\ transition = "none"
  /\ endMessage = "none"
  /\ paused = FALSE
  /\ pc = "idle"
  /\ frames = 0
  /\ outcome = "none"
  /\ failScheduled = 0
  /\ calls = 0
  /\ effects = 0
  /\ tick = NoTick

\* the mission as GameScene constructs it, held fixed while the structures
\* or the bodies of the physics engine are exercised on their own
MissionAtStart ==
  /\ level = 1
  /\ rescueTargets = [i \in 1..Level1Targets |-> i]
  /\ towedAstronauts = <<>>
  /\ totalAstronautsRescued = 0
  /\ rescues = 0
  /\ score = 0
  /\ mass = BaseMass
  /\ fuel = FuelFull
  /\ timeRemaining = Level1Time
  /\ MissionIdle

\* updates of the structures in one run
MaxStructureTicks == 6

gateCooldownTime == 1000
boostCooldownTime == 500
collisionCooldown == 500
\* |dot(velocity, direction)| a body needs to pass the gate
gateDotThreshold == 5

\* frame lengths in ms: sums reach a cooldown exactly, fall short and overshoot
StructureDeltas == {100, 400}

\* approach speeds along the gate direction: one too slow, one fast enough
GateDots == {gateDotThreshold, -2 * gateDotThreshold}

\* MomentumTransferGate.activateGate()
activateGate(G) ==
  [G EXCEPT !.isActive = FALSE, !.activationCooldown = gateCooldownTime]

\* a gate that re-arms only after the cooldown has been exceeded
gateUpdate_strict(G, delta) ==
  IF ~G.isActive
  THEN LET c == G.activationCooldown - delta
       IN [G EXCEPT !.activationCooldown = c, !.isActive = (c < 0)]
  ELSE G

\* MomentumTransferGate.update(time, delta): the cooldown countdown
gateUpdate(G, delta) ==
  IF ~G.isActive
  THEN LET c == G.activationCooldown - delta
       IN [G EXCEPT !.activationCooldown = c, !.isActive = (c <= 0)]
  ELSE G

\* MomentumTransferGate.checkGatePass(x, y, velocity, radius): inRange is
\* distance < gateWidth / 2 + objectRadius, dot is dot(velocity, direction)
gateQualifies(inRange, dot) ==
  inRange /\ (IF dot < 0 THEN -dot ELSE dot) > gateDotThreshold

gatePasses(G, inRange, dot) == G.isActive /\ gateQualifies(inRange, dot)

checkGatePass(G, inRange, dot) ==
  IF gatePasses(G, inRange, dot) THEN activateGate(G) ELSE G

\* MomentumBoostZone.activateBoost()
activateBoost(Z) ==
  [Z EXCEPT !.isActive = FALSE, !.activationCooldown = boostCooldownTime]

\* MomentumBoostZone.update(time, delta)
boostUpdate(Z, delta) ==
  IF ~Z.isActive
  THEN LET c == Z.activationCooldown - delta
       IN [Z EXCEPT !.activationCooldown = c, !.isActive = (c <= 0)]
  ELSE Z

\* MomentumBoostZone.checkBoost(x, y, velocity): inZone is distance < zoneRadius
boostApplies(Z, inZone) == Z.isActive /\ inZone

checkBoost(Z, inZone) == IF boostApplies(Z, inZone) THEN activateBoost(Z) ELSE Z

\* MovingPlatform.checkCollision(x, y, velocity, radius) at scene.time.now:
\* inBounds is the rectangle test
platformCollides(P, currentTime, inBounds) ==
  ~(currentTime - P.lastCollisionTime < collisionCooldown) /\ inBounds

checkCollision(P, currentTime, inBounds) ==
  IF platformCollides(P, currentTime, inBounds)
  THEN [P EXCEPT !.lastCollisionTime = currentTime]
  ELSE P

StructureKinds == {"gate", "boost", "platform"}

NoCall == [kind |-> "none", qualifies |-> FALSE, triggered |-> FALSE, since |-> -1]

\* the structures as constructed, at scene time 0; lastTrigger and call are
\* the record of what the calls returned
InitStructures ==
  /\ MissionAtStart
  /\ pod = "none"
  /\ bodies = "none"
  /\ gravity = "none"
  /\ educationalOverlay = "none"
  /\ structure = [now |-> 0, ticks |-> 0,
                  gate |-> [isActive |-> TRUE, activationCooldown |-> 0],
                  boost |-> [isActive |-> TRUE, activationCooldown |-> 0],
                  platform |-> [lastCollisionTime |-> 0],
                  lastTrigger |-> [k \in StructureKinds |-> -1],
                  call |-> NoCall]

\* one frame passes: the scene clock advances by delta and the structures'
\* update(time, delta) run
StructuresUpdate ==
  /\ structure.ticks < MaxStructureTicks
  /\ \E delta \in StructureDeltas :
       structure' = [structure EXCEPT
                       !.now = @ + delta,
                       !.ticks = @ + 1,
                       !.gate = gateUpdate(@, delta),
                       !.boost = boostUpdate(@, delta),
                       !.call = NoCall]
  /\ UNCHANGED <<mission, pod, bodies, gravity, educationalOverlay>>

\* the structures after a call on the structure of one kind, with the call's
\* outcome and the time since that structure last triggered put on record
Called(kind, qualifies, triggered) ==
  [structure EXCEPT
     !.call = [kind |-> kind, qualifies |-> qualifies, triggered |-> triggered,
               since |-> IF structure.lastTrigger[kind] < 0 THEN -1
                         ELSE structure.now - structure.lastTrigger[kind]],
     !.lastTrigger[kind] = IF triggered THEN structure.now ELSE @]

\* a body is tested against the gate in the current frame
CheckGatePass ==
  /\ \E inRange \in BOOLEAN, dot \in GateDots :
       structure' =
         [Called("gate", gateQualifies(inRange, dot),
                 gatePasses(structure.gate, inRange, dot))
            EXCEPT !.gate = checkGatePass(@, inRange, dot)]
  /\ UNCHANGED <<mission, pod, bodies, gravity, educationalOverlay>>

\* a body is tested against the boost zone in the current frame
CheckBoost ==
  /\ \E inZone \in BOOLEAN :
       structure' =
         [Called("boost", inZone, boostApplies(structure.boost, inZone))
            EXCEPT !.boost = checkBoost(@, inZone)]
  /\ UNCHANGED <<mission, pod, bodies, gravity, educationalOverlay>>

\* a body is tested against the moving platform in the current frame
CheckCollision ==
  /\ \E inBounds \in BOOLEAN :
       structure' =
         [Called("platform", inBounds,
                 platformCollides(structure.platform, structure.now, inBounds))
            EXCEPT !.platform = checkCollision(@, structure.now, inBounds)]
  /\ UNCHANGED <<mission, pod, bodies, gravity, educationalOverlay>>

NextStructures ==
  \/ StructuresUpdate
  \/ CheckGatePass
  \/ CheckBoost
  \/ CheckCollision

SpecStructures == InitStructures /\ [][NextStructures]_vars

Cooldown(kind) ==
  IF kind = "gate" THEN gateCooldownTime
  ELSE IF kind = "boost" THEN boostCooldownTime
  ELSE collisionCooldown

\* C17: a qualifying call on a structure that triggered before triggers
\* again exactly when the time since that trigger has reached the
\* structure's cooldown (gate 1000 ms, boost zone 500 ms, moving platform
\* 500 ms), whatever the frame lengths in between.
C17_CooldownGating ==
  (structure.call.kind \in StructureKinds /\ structure.call.qualifies
     /\ structure.call.since >= 0) =>
    (structure.call.triggered <=>
       structure.call.since >= Cooldown(structure.call.kind))

\* the gate triggers again on the call that comes exactly at the end of its
\* cooldown
C17_Witness ==
  /\ structure.call.kind = "gate"
  /\ structure.call.triggered
  /\ structure.call.since = gateCooldownTime

\* ---------------------------------------------------------------------
\* PhysicsEngine: two bodies, isColliding and resolveCollision
\* ---------------------------------------------------------------------

\* calls of PhysicsEngine.update in one run
MaxPhysicsUpdates == 2

\* addBody: width of a body whose game object has none
bodyWidth == 32

\* position of body A minus position of body B, in pixels: all of integer
\* length (0, 5, 5, 5, 10, 20), the last one out of collision range
Offsets == {<<0, 0>>, <<3, 4>>, <<-5, 0>>, <<0, 5>>, <<-6, -8>>, <<12, 16>>}
VelocitiesA == {<<0, 0>>, <<10, 0>>, <<-3, 4>>}
VelocitiesB == {<<0, 0>>, <<-5, 0>>, <<6, -8>>}
BodyMasses == {1, 2, 3}

NoResolve ==
  [called |-> FALSE, dvd |-> 0, distance |-> 0, den |-> 1,
   avx |-> 0, avy |-> 0, bvx |-> 0, bvy |-> 0]

\* Positions are x / pden, y / pden and velocities vx / den, vy / den: the
\* divisions of resolveCollision are kept exact by carrying the denominators.
\* PhysicsEngine.isColliding: distance < (widthA + widthB) / 4
isColliding(W) ==
  LET dx == W.a.x - W.b.x
      dy == W.a.y - W.b.y
      w == W.a.width + W.b.width
  IN 16 * (dx * dx + dy * dy) < w * w * W.pden * W.pden

\* a resolution without the test for distance 0: the normal of two bodies
\* at the same position is 0 / 0, and after it every velocity and position is
\* NaN, which the denominators 0 stand for
resolveCollision_noZeroTest(W) ==
  LET dx == W.a.x - W.b.x
      dy == W.a.y - W.b.y
      d2 == dx * dx + dy * dy
      distance == sqrt(d2)
      dvd == (W.a.vx - W.b.vx) * dx + (W.a.vy - W.b.vy) * dy
      k == d2 * (W.a.mass + W.b.mass)
      overlap == (W.a.width + W.b.width) \div 4 - distance
      seen == [called |-> TRUE, dvd |-> dvd, distance |-> distance, den |-> W.den,
               avx |-> W.a.vx, avy |-> W.a.vy, bvx |-> W.b.vx, bvy |-> W.b.vy]
  IN IF dvd > 0 THEN [W EXCEPT !.last = seen]
     ELSE [W EXCEPT
             !.last = seen,
             !.den = @ * k,
             !.a.vx = @ * k - 2 * dvd * W.b.mass * dx,
             !.a.vy = @ * k - 2 * dvd * W.b.mass * dy,
             !.b.vx = @ * k + 2 * dvd * W.a.mass * dx,
             !.b.vy = @ * k + 2 * dvd * W.a.mass * dy,
             !.pden = 2 * distance,
             !.a.x = @ * 2 * distance + dx * overlap,
             !.a.y = @ * 2 * distance + dy * overlap,
             !.b.x = @ * 2 * distance - dx * overlap,
             !.b.y = @ * 2 * distance - dy * overlap]

\* a resolution that gives each body the impulse scaled by its own mass
resolveCollision_ownMass(W) ==
  LET dx == W.a.x - W.b.x
      dy == W.a.y - W.b.y
      d2 == dx * dx + dy * dy
      distance == sqrt(d2)
      dvd == (W.a.vx - W.b.vx) * dx + (W.a.vy - W.b.vy) * dy
      k == d2 * (W.a.mass + W.b.mass)
      overlap == (W.a.width + W.b.width) \div 4 - distance
      seen == [called |-> TRUE, dvd |-> dvd, distance |-> distance, den |-> W.den,
               avx |-> W.a.vx, avy |-> W.a.vy, bvx |-> W.b.vx, bvy |-> W.b.vy]
  IN IF distance = 0 THEN [W EXCEPT !.last = seen]
     ELSE IF dvd > 0 THEN [W EXCEPT !.last = seen]
     ELSE [W EXCEPT
             !.last = seen,
             !.den = @ * k,
             !.a.vx = @ * k - 2 * dvd * W.a.mass * dx,
             !.a.vy = @ * k - 2 * dvd * W.a.mass * dy,
             !.b.vx = @ * k + 2 * dvd * W.b.mass * dx,
             !.b.vy = @ * k + 2 * dvd * W.b.mass * dy,
             !.pden = 2 * distance,
             !.a.x = @ * 2 * distance + dx * overlap,
             !.a.y = @ * 2 * distance + dy * overlap,
             !.b.x = @ * 2 * distance - dx * overlap,
             !.b.y = @ * 2 * distance - dy * overlap]

\* a resolution without the test for separating velocities
resolveCollision_always(W) ==
  LET dx == W.a.x - W.b.x
      dy == W.a.y - W.b.y
      d2 == dx * dx + dy * dy
      distance == sqrt(d2)
      dvd == (W.a.vx - W.b.vx) * dx + (W.a.vy - W.b.vy) * dy
      k == d2 * (W.a.mass + W.b.mass)
      overlap == (W.a.width + W.b.width) \div 4 - distance
      seen == [called |-> TRUE, dvd |-> dvd, distance |-> distance, den |-> W.den,
               avx |-> W.a.vx, avy |-> W.a.vy, bvx |-> W.b.vx, bvy |-> W.b.vy]
  IN IF distance = 0 THEN [W EXCEPT !.last = seen]
     ELSE [W EXCEPT
             !.last = seen,
             !.den = @ * k,
             !.a.vx = @ * k - 2 * dvd * W.b.mass * dx,
             !.a.vy = @ * k - 2 * dvd * W.b.mass * dy,
             !.b.vx = @ * k + 2 * dvd * W.a.mass * dx,
             !.b.vy = @ * k + 2 * dvd * W.a.mass * dy,
             !.pden = 2 * distance,
             !.a.x = @ * 2 * distance + dx * overlap,
             !.a.y = @ * 2 * distance + dy * overlap,
             !.b.x = @ * 2 * distance - dx * overlap,
             !.b.y = @ * 2 * distance - dy * overlap]

\* PhysicsEngine.resolveCollision(bodyA, bodyB), called with positions in
\* whole pixels (pden = 1). With n = (dx, dy) / distance and
\* dvn = dvd / (distance * den), impulse * mass * n is
\* 2 * dvd * mass * (dx, dy) / (den * distance^2 * (mA + mB)), and the
\* separation n * overlap * 0.5 is (dx, dy) * overlap / (2 * distance).
\* last records the call: dvd has the sign of dvn.
resolveCollision(W) ==
  LET dx == W.a.x - W.b.x
      dy == W.a.y - W.b.y
      d2 == dx * dx + dy * dy
      distance == sqrt(d2)
      dvd == (W.a.vx - W.b.vx) * dx + (W.a.vy - W.b.vy) * dy
      k == d2 * (W.a.mass + W.b.mass)
      overlap == (W.a.width + W.b.width) \div 4 - distance
      seen == [called |-> TRUE, dvd |-> dvd, distance |-> distance, den |-> W.den,
               avx |-> W.a.vx, avy |-> W.a.vy, bvx |-> W.b.vx, bvy |-> W.b.vy]
  IN IF distance = 0 THEN [W EXCEPT !.last = seen]
     ELSE IF dvd > 0 THEN [W EXCEPT !.last = seen]
     ELSE [W EXCEPT
             !.last = seen,
             !.den = @ * k,
             !.a.vx = @ * k - 2 * dvd * W.b.mass * dx,
             !.a.vy = @ * k - 2 * dvd * W.b.mass * dy,
             !.b.vx = @ * k + 2 * dvd * W.a.mass * dx,
             !.b.vy = @ * k + 2 * dvd * W.a.mass * dy,
             !.pden = 2 * distance,
             !.a.x = @ * 2 * distance + dx * overlap,
             !.a.y = @ * 2 * distance + dy * overlap,
             !.b.x = @ * 2 * distance - dx * overlap,
             !.b.y = @ * 2 * distance - dy * overlap]

\* PhysicsEngine.checkCollisions for the one pair of bodies
physicsCheckCollisions(W) ==
  IF isColliding(W) THEN resolveCollision(W) ELSE [W EXCEPT !.last = NoResolve]

\* two bodies added with addBody, body B at (400, 300)
InitBodies ==
  /\ MissionAtStart
  /\ pod = "none"
  /\ structure = "none"
  /\ gravity = "none"
  /\ educationalOverlay = "none"
  /\ \E o \in Offsets, va \in VelocitiesA, vb \in VelocitiesB,
        ma \in BodyMasses, mb \in BodyMasses :
       bodies = [a |-> [x |-> StationX + o[1], y |-> StationY + o[2],
                        vx |-> va[1], vy |-> va[2], mass |-> ma,
                        width |-> bodyWidth],
                 b |-> [x |-> StationX, y |-> StationY,
                        vx |-> vb[1], vy |-> vb[2], mass |-> mb,
                        width |-> bodyWidth],
                 den |-> 1, pden |-> 1, updates |-> 0, last |-> NoResolve]

\* PhysicsEngine.update(delta): positions synchronised, then checkCollisions
PhysicsUpdate ==
  /\ bodies.updates < MaxPhysicsUpdates
  /\ bodies' = [physicsCheckCollisions(bodies) EXCEPT !.updates = @ + 1]
  /\ UNCHANGED <<mission, pod, structure, gravity, educationalOverlay>>

NextBodies == PhysicsUpdate

SpecBodies == InitBodies /\ [][NextBodies]_vars

\* C18: resolveCollision called on an approaching pair (vn < 0) keeps
\* mA * vA + mB * vB on both axes.
C18_MomentumConserved ==
  (bodies.last.called /\ bodies.last.dvd < 0) =>
     /\ (bodies.a.mass * bodies.a.vx + bodies.b.mass * bodies.b.vx) * bodies.last.den
          = (bodies.a.mass * bodies.last.avx + bodies.b.mass * bodies.last.bvx) * bodies.den
     /\ (bodies.a.mass * bodies.a.vy + bodies.b.mass * bodies.b.vy) * bodies.last.den
          = (bodies.a.mass * bodies.last.avy + bodies.b.mass * bodies.last.bvy) * bodies.den

\* an approaching pair of unequal masses, off both axes, has been resolved
\* and both velocity components of body A have changed
C18_Witness ==
  /\ bodies.last.called
  /\ bodies.last.dvd < 0
  /\ bodies.a.mass # bodies.b.mass
  /\ bodies.a.vx * bodies.last.den # bodies.last.avx * bodies.den
  /\ bodies.a.vy * bodies.last.den # bodies.last.avy * bodies.den

\* C19: resolveCollision called on a pair with vn >= 0 (separating or
\* tangential) leaves the velocities of both bodies as they were.
C19_SeparatingUntouched ==
  (bodies.last.called /\ bodies.last.dvd >= 0) =>
     /\ bodies.a.vx * bodies.last.den = bodies.last.avx * bodies.den
     /\ bodies.a.vy * bodies.last.den = bodies.last.avy * bodies.den
     /\ bodies.b.vx * bodies.last.den = bodies.last.bvx * bodies.den
     /\ bodies.b.vy * bodies.last.den = bodies.last.bvy * bodies.den

\* resolveCollision has been called on a separating pair that is moving
C19_Witness ==
  /\ bodies.last.called
  /\ bodies.last.distance > 0
  /\ bodies.last.dvd > 0
  /\ bodies.last.avx # bodies.last.bvx

\* ---------------------------------------------------------------------
\* The player and one piece of debris: PlayerPod.update, Debris.update and
\* GameScene.checkCollisions with Debris.handleCollision
\* ---------------------------------------------------------------------

\* frames explored from an initial state
MaxDebrisFrames == 3

\* checkCollisions: collisionRange
collisionRange == 35
\* Debris.wrapAroundScreen: margin
debrisMargin == 50
\* Debris.update: velocity is in pixels per 1000 ms
debrisTimeUnit == 1000

DebrisDeltas == {100, 200}
\* velocities in multiples of 4, which keeps every division exact
PlayerStartVx == {4, 12}
DebrisStartV == {<<0, 0>>, <<-4, 0>>, <<0, 4>>}
\* astronauts in tow when the player meets the debris
DebrisTowed == {0, 1}
\* Debris.mass is drawn from [0.5, 2.0]
DebrisMasses == {1}
\* where the debris starts, to the right of the player and out of range
DebrisStartDx == 40
DebrisStartDy == {0, 8}

NoContact ==
  [ran |-> FALSE, inRange |-> FALSE, dvd |-> 0, delta |-> 0,
   pvx |-> 0, pvy |-> 0, dvx |-> 0, dvy |-> 0]

\* a wrap of the debris at the edges of the screen
debrisWrap_atEdge(c, size) ==
  IF c < 0 THEN (size + debrisMargin) * VelScale
  ELSE IF c > size * VelScale THEN -debrisMargin * VelScale
  ELSE c

\* Debris.wrapAroundScreen, one coordinate
debrisWrap(c, size) ==
  IF c < -debrisMargin * VelScale THEN (size + debrisMargin) * VelScale
  ELSE IF c > (size + debrisMargin) * VelScale THEN -debrisMargin * VelScale
  ELSE c

\* Debris.update(delta)
debrisUpdate(D, delta) ==
  [D EXCEPT !.x = debrisWrap(D.x + (D.vx * delta) \div debrisTimeUnit, GameWidth),
            !.y = debrisWrap(D.y + (D.vy * delta) \div debrisTimeUnit, GameHeight)]

\* handleCollision whose returned velocity takes its second term from the
\* other body's own mass
handleCollision_otherMass(D, otherVelocity, otherMass) ==
  LET totalMass == D.mass + otherMass
  IN [debris |->
        [D EXCEPT
           !.vx = ((D.mass - otherMass) * D.vx + 2 * otherMass * otherVelocity.x)
                    \div totalMass,
           !.vy = ((D.mass - otherMass) * D.vy + 2 * otherMass * otherVelocity.y)
                    \div totalMass],
      other |->
        [x |-> ((otherMass - D.mass) * otherVelocity.x + 2 * otherMass * D.vx)
                 \div totalMass,
         y |-> ((otherMass - D.mass) * otherVelocity.y + 2 * otherMass * D.vy)
                 \div totalMass]]

\* Debris.handleCollision(otherVelocity, otherMass): the debris with its new
\* velocity and the velocity returned for the other body
handleCollision(D, otherVelocity, otherMass) ==
  LET totalMass == D.mass + otherMass
  IN [debris |->
        [D EXCEPT
           !.vx = ((D.mass - otherMass) * D.vx + 2 * otherMass * otherVelocity.x)
                    \div totalMass,
           !.vy = ((D.mass - otherMass) * D.vy + 2 * otherMass * otherVelocity.y)
                    \div totalMass],
      other |->
        [x |-> ((otherMass - D.mass) * otherVelocity.x + 2 * D.mass * D.vx)
                 \div totalMass,
         y |-> ((otherMass - D.mass) * otherVelocity.y + 2 * D.mass * D.vy)
                 \div totalMass]]

\* GameScene.checkCollisions, player against the debris: W has the player and
\* the debris after their updates of this frame. last records the frame:
\* dvd is (vPlayer - vDebris) . (pPlayer - pDebris), negative for a pair that
\* is approaching, and the velocities are those before the call; delta is
\* filled in by the frame.
checkCollisions(W, playerMass) ==
  LET P == W.player
      D == W.debris
      seen == [ran |-> TRUE, delta |-> 0,
               inRange |-> Near(P.x, P.y, D.x, D.y, collisionRange),
               dvd |-> (P.vx - D.vx) * (P.x - D.x) + (P.vy - D.vy) * (P.y - D.y),
               pvx |-> P.vx, pvy |-> P.vy, dvx |-> D.vx, dvy |-> D.vy]
  IN IF seen.inRange
     THEN LET hit == handleCollision(D, [x |-> P.vx, y |-> P.vy], playerMass)
          IN [W EXCEPT !.debris = hit.debris,
                       !.player.vx = hit.other.x,
                       !.player.vy = hit.other.y,
                       !.last = seen]
     ELSE [W EXCEPT !.last = seen]

\* level 2 just begun (the first level with debris), the player alone or
\* with the first astronaut in tow, drifting to the right towards a piece of
\* debris 40 px away
InitDebris ==
  /\ level = 2
  /\ \E n \in DebrisTowed :
       /\ towedAstronauts = [i \in 1..n |-> i]
       /\ rescueTargets = [i \in 1..(Level2Targets - n) |-> i + n]
       /\ rescues = DeliveredBefore(2) + n
  /\ totalAstronautsRescued = DeliveredBefore(2)
  /\ score = RescueBonus * rescues + DeliveryBonus * totalAstronautsRescued
  /\ mass = BaseMass + MassIncrement * Len(towedAstronauts)
  /\ fuel = FuelFull
  /\ timeRemaining = Level2Time
  /\ MissionIdle
  /\ pod = "none"
  /\ structure = "none"
  /\ gravity = "none"
  /\ educationalOverlay = "none"
  /\ \E pv \in PlayerStartVx, dv \in DebrisStartV, dy \in DebrisStartDy,
        dm \in DebrisMasses :
       bodies = [player |-> [x |-> StationX * VelScale, y |-> StationY * VelScale,
                             vx |-> pv * VelScale, vy |-> 0,
                             thrust |-> [x |-> 0, y |-> 0],
                             isThrusting |-> FALSE],
                 debris |-> [x |-> (StationX + DebrisStartDx) * VelScale,
                             y |-> (StationY + dy) * VelScale,
                             vx |-> dv[1] * VelScale, vy |-> dv[2] * VelScale,
                             mass |-> dm],
                 frames |-> 0,
                 last |-> NoContact]

\* GameScene.update(time, delta) with no key down: player.update,
\* debris.update, checkCollisions
DebrisFrame ==
  /\ bodies.frames < MaxDebrisFrames
  /\ \E delta \in DebrisDeltas :
       LET moved == [bodies EXCEPT
                       !.player = PodUpdate(@, fuel, mass, delta,
                                            [d \in Directions |-> FALSE]),
                       !.debris = debrisUpdate(@, delta)]
       IN bodies' = [checkCollisions(moved, mass) EXCEPT !.frames = @ + 1,
                                                         !.last.delta = delta]
  /\ UNCHANGED <<mission, pod, structure, gravity, educationalOverlay>>

NextDebris == DebrisFrame

SpecDebris == InitDebris /\ [][NextDebris]_vars

\* C20: a frame that finds the player and the debris within collision range
\* (35) but already separating leaves the velocities of both unchanged.
C20_SeparatingPairUntouched ==
  (bodies.last.ran /\ bodies.last.inRange /\ bodies.last.dvd > 0) =>
     /\ bodies.player.vx = bodies.last.pvx
     /\ bodies.player.vy = bodies.last.pvy
     /\ bodies.debris.vx = bodies.last.dvx
     /\ bodies.debris.vy = bodies.last.dvy

\* C21: a frame on which the player collides with debris costs fuel beyond
\* the thrust consumption of that frame. The frames of this specification
\* have no key down, so the thrust consumption is 0 and the collision alone
\* would have to lower the fuel.
C21_CollisionCostsFuel ==
  [][(bodies'.frames = bodies.frames + 1 /\ bodies'.last.inRange /\ fuel > 0)
       => fuel' < fuel]_vars

\* ---------------------------------------------------------------------
\* GravityWell: calculateGravitationalForce and getGravityStrength, measured
\* by a probe body placed around one well
\* ---------------------------------------------------------------------

\* times the probe is moved in one run
MaxProbeMoves == 2

gravitationalConstant == 500

\* the two wells of level 3 and a well with the constructor's defaults
Wells ==
  {[x |-> 200, y |-> 300, mass |-> 80, radius |-> 35, visualRadius |-> 150],
   [x |-> 600, y |-> 200, mass |-> 60, radius |-> 30, visualRadius |-> 120],
   [x |-> 400, y |-> 300, mass |-> 100, radius |-> 40, visualRadius |-> 200]}

\* distances of the probe from the well, in pixels: the centre, inside and on
\* the surface of each well, inside and on the edge of each field, beyond it
ProbeRadii == {0, 25, 30, 35, 40, 50, 100, 120, 150, 200, 250}

\* probe position minus well position: on the axes and, with lengths 30, 35,
\* 40, 50, 100, 120, 150 and 200, off them
ProbeOffsets ==
  {<<r, 0>> : r \in ProbeRadii} \cup {<<0, -r>> : r \in ProbeRadii}
    \cup {<<18, 24>>, <<-21, 28>>, <<24, -32>>, <<-30, -40>>, <<-60, 80>>,
          <<72, 96>>, <<90, -120>>, <<-120, -160>>}

ObjectMasses == {1, 2}

\* a force (x / den, y / den); den = 0 stands for not measured
NoForce == [x |-> 0, y |-> 0, den |-> 0]
\* a strength num / den; den = 0 stands for not measured
NoStrength == [num |-> 0, den |-> 0]

\* Math.sqrt(dx * dx + dy * dy) between the well and a point
wellDistance(W, px, py) ==
  sqrt((W.x - px) * (W.x - px) + (W.y - py) * (W.y - py))

\* a force pointing away from the well
calculateGravitationalForce_repel(W, objectX, objectY, objectMass) ==
  LET dx == objectX - W.x
      dy == objectY - W.y
      distanceSquared == dx * dx + dy * dy
      distance == sqrt(distanceSquared)
  IN IF distance < W.radius THEN [x |-> 0, y |-> 0, den |-> 1]
     ELSE [x |-> dx * gravitationalConstant * W.mass * objectMass,
           y |-> dy * gravitationalConstant * W.mass * objectMass,
           den |-> distance * distanceSquared]

\* GravityWell.calculateGravitationalForce(objectX, objectY, objectMass):
\* (dx / distance) * (G * mass * objectMass / distanceSquared), kept exact
\* as numerators over distance * distanceSquared
calculateGravitationalForce(W, objectX, objectY, objectMass) ==
  LET dx == W.x - objectX
      dy == W.y - objectY
      distanceSquared == dx * dx + dy * dy
      distance == sqrt(distanceSquared)
  IN IF distance < W.radius THEN [x |-> 0, y |-> 0, den |-> 1]
     ELSE [x |-> dx * gravitationalConstant * W.mass * objectMass,
           y |-> dy * gravitationalConstant * W.mass * objectMass,
           den |-> distance * distanceSquared]

\* a strength that is not clamped inside the well
getGravityStrength_noClamp(W, objectX, objectY) ==
  LET distance == wellDistance(W, objectX, objectY)
  IN IF distance >= W.visualRadius THEN [num |-> 0, den |-> 1]
     ELSE [num |-> (W.visualRadius - W.radius) - (distance - W.radius),
           den |-> W.visualRadius - W.radius]

\* GravityWell.getGravityStrength(objectX, objectY):
\* 1 - (distance - radius) / (visualRadius - radius) between surface and edge
getGravityStrength(W, objectX, objectY) ==
  LET distance == wellDistance(W, objectX, objectY)
  IN IF distance >= W.visualRadius THEN [num |-> 0, den |-> 1]
     ELSE IF distance <= W.radius THEN [num |-> 1, den |-> 1]
     ELSE [num |-> (W.visualRadius - W.radius) - (distance - W.radius),
           den |-> W.visualRadius - W.radius]

\* one well and a probe body somewhere around it; nothing measured yet.
\* earlier is the last strength measured at another place, with its distance.
InitGravity ==
  /\ MissionAtStart
  /\ pod = "none"
  /\ structure = "none"
  /\ bodies = "none"
  /\ educationalOverlay = "none"
  /\ \E W \in Wells, o \in ProbeOffsets, m \in ObjectMasses :
       gravity = [well |-> W,
                  probe |-> [x |-> W.x + o[1], y |-> W.y + o[2], mass |-> m],
                  force |-> NoForce,
                  strength |-> NoStrength,
                  earlier |-> [distance |-> 0, strength |-> NoStrength],
                  moves |-> 0]

\* the force on the probe is asked for
CalculateGravitationalForce ==
  /\ gravity' = [gravity EXCEPT
                   !.force = calculateGravitationalForce(
                               gravity.well, gravity.probe.x, gravity.probe.y,
                               gravity.probe.mass)]
  /\ UNCHANGED <<mission, pod, structure, bodies, educationalOverlay>>

\* the strength of the field at the probe is asked for
GetGravityStrength ==
  /\ gravity' = [gravity EXCEPT
                   !.strength = getGravityStrength(
                                  gravity.well, gravity.probe.x, gravity.probe.y)]
  /\ UNCHANGED <<mission, pod, structure, bodies, educationalOverlay>>

\* the probe is put somewhere else; a strength measured where it was is kept
MoveProbe ==
  /\ gravity.moves < MaxProbeMoves
  /\ \E o \in ProbeOffsets :
       gravity' = [gravity EXCEPT
                     !.probe.x = gravity.well.x + o[1],
                     !.probe.y = gravity.well.y + o[2],
                     !.force = NoForce,
                     !.strength = NoStrength,
                     !.earlier = IF gravity.strength.den > 0
                                 THEN [distance |->
                                         wellDistance(gravity.well,
                                                      gravity.probe.x,
                                                      gravity.probe.y),
                                       strength |-> gravity.strength]
                                 ELSE @,
                     !.moves = @ + 1]
  /\ UNCHANGED <<mission, pod, structure, bodies, educationalOverlay>>

NextGravity ==
  \/ CalculateGravitationalForce
  \/ GetGravityStrength
  \/ MoveProbe

SpecGravity == InitGravity /\ [][NextGravity]_vars

\* distance of the probe from the well
ProbeDistance == wellDistance(gravity.well, gravity.probe.x, gravity.probe.y)

\* forces are compared in units of ForceUnit / den, which keeps the squares
\* of the comparison small
ForceUnit == 1000

\* C22: the force on a body closer to the well than its radius is the zero
\* vector; otherwise its magnitude is G * wellMass * bodyMass / r^2 and it
\* points from the body to the well.
C22_GravitationalForce ==
  gravity.force.den > 0 =>
    LET F == gravity.force
        r == ProbeDistance
        dx == gravity.well.x - gravity.probe.x
        dy == gravity.well.y - gravity.probe.y
        fx == F.x \div ForceUnit
        fy == F.y \div ForceUnit
        k == (gravitationalConstant * gravity.well.mass * gravity.probe.mass)
               \div ForceUnit
    IN IF r < gravity.well.radius
       THEN F.x = 0 /\ F.y = 0
       ELSE /\ F.den = r * r * r
            /\ F.x % ForceUnit = 0 /\ F.y % ForceUnit = 0
            \* |F| * den = (G * M * m / r^2) * r^3
            /\ fx * fx + fy * fy = (k * r) * (k * r)
            \* parallel to, and in the direction of, well minus body
            /\ fx * dy = fy * dx
            /\ fx * dx + fy * dy > 0

\* the spec's scenario: mass 100, radius 40, a unit mass at distance 50 off
\* the axes, and a force of magnitude 20
C22_Witness ==
  /\ gravity.force.den > 0
  /\ gravity.well.mass = 100
  /\ gravity.well.radius = 40
  /\ gravity.probe.mass = 1
  /\ ProbeDistance = 50
  /\ gravity.probe.x # gravity.well.x
  /\ gravity.probe.y # gravity.well.y
  /\ LET fx == gravity.force.x \div ForceUnit
         fy == gravity.force.y \div ForceUnit
         den == gravity.force.den \div ForceUnit
     IN fx * fx + fy * fy = (20 * den) * (20 * den)

\* value of a measured strength against 0, 1 and another measured strength
StrengthAtMost(s, t) == s.num * t.den <= t.num * s.den

\* C23: the strength is exactly 1 on and inside the surface of the well,
\* exactly 0 on and beyond the edge of its field, between 0 and 1 everywhere,
\* and a strength measured farther from the well is never the larger one.
C23_GravityStrength ==
  gravity.strength.den > 0 =>
    LET s == gravity.strength
        r == ProbeDistance
        e == gravity.earlier
    IN /\ r <= gravity.well.radius => s.num = s.den
       /\ r >= gravity.well.visualRadius => s.num = 0
       /\ 0 <= s.num /\ s.num <= s.den
       /\ (e.strength.den > 0 /\ e.distance <= r) => StrengthAtMost(s, e.strength)
       /\ (e.strength.den > 0 /\ e.distance >= r) => StrengthAtMost(e.strength, s)

\* a strength strictly between 0 and 1, measured after a larger one that was
\* measured closer to the well and also below 1
C23_Witness ==
  /\ gravity.strength.den > 0
  /\ gravity.earlier.strength.den > 0
  /\ gravity.earlier.distance < ProbeDistance
  /\ 0 < gravity.strength.num
  /\ gravity.earlier.strength.num < gravity.earlier.strength.den
  /\ ~StrengthAtMost(gravity.earlier.strength, gravity.strength)

\* ---------------------------------------------------------------------
\* The player and one piece of debris near the edges of the screen
\* ---------------------------------------------------------------------

\* <<x, y, vx, vy>> of the player: about to cross each edge, about to stop
\* on the left edge, and in the middle
WrapPlayerStarts ==
  {<<2, 300, -4, 0>>, <<798, 300, 4, 0>>, <<400, 2, 0, -4>>, <<400, 598, 0, 4>>,
   <<4, 300, -4, 0>>, <<400, 300, 4, 0>>}

\* <<x, y, vx, vy>> of the debris: about to cross each edge of the screen,
\* and about to cross each line 50 px outside it
WrapDebrisStarts ==
  {<<2, 150, -30, 0>>, <<798, 150, 30, 0>>, <<600, 2, 0, -30>>, <<600, 598, 0, 30>>,
   <<-48, 150, -30, 0>>, <<848, 150, 30, 0>>, <<600, -48, 0, -30>>,
   <<600, 648, 0, 30>>}

\* level 2 just begun, the player and a piece of debris drifting near the
\* edges of the screen, far from each other
InitWrap ==
  /\ level = 2
  /\ towedAstronauts = <<>>
  /\ rescueTargets = [i \in 1..Level2Targets |-> i]
  /\ rescues = DeliveredBefore(2)
  /\ totalAstronautsRescued = DeliveredBefore(2)
  /\ score = RescueBonus * rescues + DeliveryBonus * totalAstronautsRescued
  /\ mass = BaseMass
  /\ fuel = FuelFull
  /\ timeRemaining = Level2Time
  /\ MissionIdle
  /\ pod = "none"
  /\ structure = "none"
  /\ gravity = "none"
  /\ educationalOverlay = "none"
  /\ \E p \in WrapPlayerStarts, d \in WrapDebrisStarts, dm \in DebrisMasses :
       bodies = [player |-> [x |-> p[1] * VelScale, y |-> p[2] * VelScale,
                             vx |-> p[3] * VelScale, vy |-> p[4] * VelScale,
                             thrust |-> [x |-> 0, y |-> 0],
                             isThrusting |-> FALSE],
                 debris |-> [x |-> d[1] * VelScale, y |-> d[2] * VelScale,
                             vx |-> d[3] * VelScale, vy |-> d[4] * VelScale,
                             mass |-> dm],
                 frames |-> 0,
                 last |-> NoContact]

SpecWrap == InitWrap /\ [][NextDebris]_vars

\* where a coordinate is after the wrap step, if it was at c before it and
\* the body wraps when it is more than margin outside [0, size]
WrappedAt(c, size, margin) ==
  IF c < -margin * VelScale THEN (size + margin) * VelScale
  ELSE IF c > (size + margin) * VelScale THEN -margin * VelScale
  ELSE c

\* where a coordinate is after the wrap step, if it was at c before it and
\* the body wraps as soon as it is outside [0, size]
WrappedAtEdge(c, size, margin) ==
  IF c < 0 THEN (size + margin) * VelScale
  ELSE IF c > size * VelScale THEN -margin * VelScale
  ELSE c

InsideMargin(c, size, margin) ==
  -margin * VelScale <= c /\ c <= (size + margin) * VelScale

\* a frame of delta ms has passed, in which player and debris did not touch
DriftFrame(delta) ==
  /\ bodies'.frames = bodies.frames + 1
  /\ bodies'.last.delta = delta
  /\ ~bodies'.last.inRange

\* C24: after the frame each coordinate of the player and of the debris
\* lies within [-margin, size + margin] (margin 0 for the player, 50 for the
\* debris); a coordinate that the motion of the frame took below -margin is
\* at size + margin, one that it took above size + margin is at -margin,
\* and any other is where the motion took it.
C24_WrapAtMargin ==
  [][\A delta \in DebrisDeltas :
       DriftFrame(delta) =>
         LET px == bodies.player.x + bodies.player.vx * (delta \div 100)
             py == bodies.player.y + bodies.player.vy * (delta \div 100)
             qx == bodies.debris.x + (bodies.debris.vx * delta) \div debrisTimeUnit
             qy == bodies.debris.y + (bodies.debris.vy * delta) \div debrisTimeUnit
         IN /\ bodies'.player.x = WrappedAt(px, GameWidth, 0)
            /\ bodies'.player.y = WrappedAt(py, GameHeight, 0)
            /\ bodies'.debris.x = WrappedAt(qx, GameWidth, debrisMargin)
            /\ bodies'.debris.y = WrappedAt(qy, GameHeight, debrisMargin)
            /\ InsideMargin(bodies'.player.x, GameWidth, 0)
            /\ InsideMargin(bodies'.player.y, GameHeight, 0)
            /\ InsideMargin(bodies'.debris.x, GameWidth, debrisMargin)
            /\ InsideMargin(bodies'.debris.y, GameHeight, debrisMargin)]_vars

\* the player has reappeared at the right edge and the debris 50 px beyond it
C24_Witness ==
  /\ bodies.frames = 1
  /\ bodies.player.x = GameWidth * VelScale
  /\ bodies.debris.x = (GameWidth + debrisMargin) * VelScale

\* the statement with the wrap of every body at the edges of the screen: a
\* coordinate that the motion of the frame took below 0 is at size + margin,
\* one that it took above size is at -margin.
C24_WrapAtZero ==
  [][\A delta \in DebrisDeltas :
       DriftFrame(delta) =>
         LET px == bodies.player.x + bodies.player.vx * (delta \div 100)
             py == bodies.player.y + bodies.player.vy * (delta \div 100)
             qx == bodies.debris.x + (bodies.debris.vx * delta) \div debrisTimeUnit
             qy == bodies.debris.y + (bodies.debris.vy * delta) \div debrisTimeUnit
         IN /\ bodies'.player.x = WrappedAtEdge(px, GameWidth, 0)
            /\ bodies'.player.y = WrappedAtEdge(py, GameHeight, 0)
            /\ bodies'.debris.x = WrappedAtEdge(qx, GameWidth, debrisMargin)
            /\ bodies'.debris.y = WrappedAtEdge(qy, GameHeight, debrisMargin)
            /\ InsideMargin(bodies'.player.x, GameWidth, 0)
            /\ InsideMargin(bodies'.player.y, GameHeight, 0)
            /\ InsideMargin(bodies'.debris.x, GameWidth, debrisMargin)
            /\ InsideMargin(bodies'.debris.y, GameHeight, debrisMargin)]_vars

\* ---------------------------------------------------------------------
\* The limit on the player's speed: PlayerPod.update on velocities at, below
\* and above maxVelocity, set by thrust or by a collision before the tick
\* ---------------------------------------------------------------------

\* ticks explored from an initial state
MaxClampTicks == 2

\* velocity at an initial state, in the source's unit: at rest, at the limit
\* along an axis and off the axes, and one thrust of 100 ms below the limit
ClampStartV ==
  {<<0, 0>>, <<maxVelocity, 0>>, <<maxVelocity - 3, 0>>, <<0, -maxVelocity>>,
   <<120, 160>>}

\* velocities that checkCollisions hands to setVelocity: speeds 400, 240, 200
\* and 250, all within the range of sqrt
HitVelocities == {<<240, 320>>, <<-144, 192>>, <<-120, 160>>, <<0, 250>>}

\* the keys down during a tick: thrust along the axis of a velocity that
\* lies on an axis, none otherwise, so that every speed is a whole number
ExactKeys(P) ==
  IF P.vy = 0 THEN {{}, {"left"}, {"right"}}
  ELSE IF P.vx = 0 THEN {{}, {"up"}, {"down"}}
  ELSE {{}}

NoClamp == [ran |-> FALSE, delta |-> 0, vx |-> 0, vy |-> 0]

\* level 2 just begun, the player at the station with nobody in tow
InitClamp ==
  /\ level = 2
  /\ towedAstronauts = <<>>
  /\ rescueTargets = [i \in 1..Level2Targets |-> i]
  /\ rescues = DeliveredBefore(2)
  /\ totalAstronautsRescued = DeliveredBefore(2)
  /\ score = RescueBonus * rescues + DeliveryBonus * totalAstronautsRescued
  /\ mass = BaseMass
  /\ fuel = FuelFull
  /\ timeRemaining = Level2Time
  /\ MissionIdle
  /\ \E v \in ClampStartV :
       pod = [x |-> StationX * VelScale, y |-> StationY * VelScale,
              vx |-> v[1] * VelScale, vy |-> v[2] * VelScale,
              thrust |-> [x |-> 0, y |-> 0], isThrusting |-> FALSE,
              ticks |-> 0, last |-> NoClamp]
  /\ structure = "none"
  /\ bodies = "none"
  /\ gravity = "none"
  /\ educationalOverlay = "none"

\* GameScene.update(time, delta) without a rescue attempt: PlayerPod.update
\* with the keys that are down
ClampTick ==
  /\ pod.ticks < MaxClampTicks
  /\ \E keys \in ExactKeys(pod), delta \in PodDeltas :
       LET controls == [d \in Directions |-> d \in keys]
           S1 == update(Scene, delta, FALSE, keys # {}, {}, NearStation(pod))
           P1 == PodUpdate(pod, fuel, mass, delta, controls)
       IN /\ Commit(S1)
          /\ pod' = [P1 EXCEPT
                       !.ticks = @ + 1,
                       !.last = [ran |-> TRUE, delta |-> delta,
                                 vx |-> pod.vx, vy |-> pod.vy]]
  /\ UNCHANGED <<pc, frames, tick, structure, bodies, gravity, educationalOverlay>>

\* GameScene.checkCollisions: player.setVelocity with the velocity that
\* Debris.handleCollision returns, after the tick of the frame
SetVelocity ==
  /\ pod.ticks < MaxClampTicks
  /\ pod.last.ran
  /\ \E v \in HitVelocities :
       pod' = [pod EXCEPT !.vx = v[1] * VelScale, !.vy = v[2] * VelScale]
  /\ UNCHANGED <<mission, structure, bodies, gravity, educationalOverlay>>

NextClamp ==
  \/ ClampTick
  \/ SetVelocity

SpecClamp == InitClamp /\ [][NextClamp]_vars

\* the velocity of a tick after the acceleration and before the limit: v is
\* the velocity before the tick, and thrust and delta are those of the tick
Accelerated(v, thrust, delta) ==
  [x |-> v.x + (thrust.x * (delta \div 100)) \div mass,
   y |-> v.y + (thrust.y * (delta \div 100)) \div mass]

SpeedSquared(vx, vy) == vx * vx + vy * vy

TopSquared == (maxVelocity * VelScale) * (maxVelocity * VelScale)

\* C25: after every PlayerPod.update the speed is at most maxVelocity; a
\* velocity above the limit after the acceleration (from thrust or from a
\* collision before the tick) comes out with exactly the limit as its speed
\* and with its direction, and a velocity at or below the limit comes out
\* as it is, so a body at the limit with no thrust keeps its speed.
C25_SpeedLimited ==
  [][pod'.ticks = pod.ticks + 1 =>
       LET a == Accelerated([x |-> pod.vx, y |-> pod.vy], pod'.thrust,
                            pod'.last.delta)
       IN /\ SpeedSquared(pod'.vx, pod'.vy) <= TopSquared
          /\ SpeedSquared(a.x, a.y) > TopSquared =>
               /\ SpeedSquared(pod'.vx, pod'.vy) = TopSquared
               /\ pod'.vx * a.y = pod'.vy * a.x
               /\ pod'.vx * a.x + pod'.vy * a.y > 0
          /\ SpeedSquared(a.x, a.y) <= TopSquared =>
               /\ pod'.vx = a.x
               /\ pod'.vy = a.y]_vars

\* C25 witness: a velocity off the axes and above the limit, set by a
\* collision, has been brought to the limit by the tick that followed
C25_Witness ==
  /\ pod.last.ran
  /\ pod.ticks > 1
  /\ SpeedSquared(pod.last.vx, pod.last.vy) > TopSquared
  /\ pod.last.vx # 0 /\ pod.last.vy # 0
  /\ SpeedSquared(pod.vx, pod.vy) = TopSquared

\* ---------------------------------------------------------------------
\* Level 3 with the player drifting through the field of the two wells:
\* GameScene.updateTrajectoryHelper and TrajectoryHelper.showTrajectory,
\* the loop of simulateTrajectory taken one iteration at a time
\* ---------------------------------------------------------------------

\* frames explored from an initial state
MaxTrajectoryFrames == 4

\* updateTrajectoryHelper: ms between two predictions
trajectoryCooldown == 500
\* updateTrajectoryHelper: the speed above which a prediction is shown
trajectorySpeed == 10
\* updateTrajectoryHelper: steps handed to showTrajectory
trajectorySteps == 40
\* showTrajectory: ms after which the drawing is hidden
trajectoryHideDelay == 3000
\* simulateTrajectory: deltaTime is 1 / SimRate
SimRate == 10
\* simulateTrajectory: the bounds are SimMargin beyond the screen
SimMargin == 100

\* frame lengths in ms: shorter than the cooldown, the cooldown, and one that
\* lets the 1-second timer fire
TrajectoryDeltas == {250, 500, 1000}

\* velocity of the player at an initial state: along the row of the first
\* well in both directions, up the screen, and too slow for a prediction
TrajectoryStartV == {<<80, 0>>, <<-80, 0>>, <<0, -60>>, <<8, 6>>}

\* createGravityWells: the wells of level 3
Level3Wells ==
  << [x |-> 200, y |-> 300, mass |-> 80, radius |-> 35, visualRadius |-> 150],
     [x |-> 600, y |-> 200, mass |-> 60, radius |-> 30, visualRadius |-> 120] >>

\* Positions of the simulation are in 1 / (SimRate * VelScale) px and its
\* velocities in 1 / VelScale of the source's unit, so that a step of
\* deltaTime moves the position by the velocity.
SimUnit == SimRate * VelScale

Abs(n) == IF n < 0 THEN -n ELSE n

\* simulateTrajectory: the position has left [-100, 900] x [-100, 700]
offScreen(x, y) ==
  \/ x < -SimMargin * SimUnit
  \/ x > (GameWidth + SimMargin) * SimUnit
  \/ y < -SimMargin * SimUnit
  \/ y > (GameHeight + SimMargin) * SimUnit

\* simulateTrajectory: distance < gravityWell.getRadius() for one well; the
\* squares are taken only of differences below the radius
closerThanRadius(W, x, y) ==
  LET dx == x - W.x * SimUnit
      dy == y - W.y * SimUnit
      r == W.radius * SimUnit
  IN /\ Abs(dx) < r
     /\ Abs(dy) < r
     /\ dx * dx + dy * dy < r * r

tooClose(wells, x, y) ==
  \E k \in 1..Len(wells) : closerThanRadius(wells[k], x, y)

\* simulateTrajectory: what deltaTime of the force of one well adds to the
\* velocity of the unit mass, the force taken at the pixel of the position
\* and the quotient rounded down
wellKick(W, x, y) ==
  LET force == calculateGravitationalForce(W, x \div SimUnit, y \div SimUnit, 1)
  IN [x |-> ((VelScale * force.x) \div SimRate) \div force.den,
      y |-> ((VelScale * force.y) \div SimRate) \div force.den]

RECURSIVE totalKick(_, _, _, _)
totalKick(wells, k, x, y) ==
  IF k > Len(wells) THEN [x |-> 0, y |-> 0]
  ELSE LET one == wellKick(wells[k], x, y)
           rest == totalKick(wells, k + 1, x, y)
       IN [x |-> one.x + rest.x, y |-> one.y + rest.y]

\* simulateTrajectory, first half of an iteration: the point is pushed and
\* the forces of the wells at it are summed
simulateForces(Gr) ==
  LET s == Gr.sim
  IN [Gr EXCEPT
        !.sim = [s EXCEPT
                   !.points = Append(@, [x |-> s.x, y |-> s.y,
                                         vx |-> s.vx, vy |-> s.vy]),
                   !.kick = totalKick(Gr.helperWells, 1, s.x, s.y),
                   !.phase = "move"]]

\* a second half that goes on whatever the new position is and leaves the
\* loop one iteration late
simulateMove_testLate(Gr) ==
  LET s == Gr.sim
      vx == s.vx + s.kick.x
      vy == s.vy + s.kick.y
      stop == offScreen(s.x, s.y) \/ tooClose(Gr.helperWells, s.x, s.y)
  IN [Gr EXCEPT
        !.sim = [s EXCEPT
                   !.x = s.x + vx, !.y = s.y + vy, !.vx = vx, !.vy = vy,
                   !.i = IF stop THEN @ ELSE @ + 1,
                   !.running = ~stop,
                   !.phase = "force"]]

\* a second half that integrates the player's own position and velocity
simulateMove_onPlayer(Gr) ==
  LET s == Gr.sim
      vx == s.vx + s.kick.x
      vy == s.vy + s.kick.y
      x == s.x + vx
      y == s.y + vy
      stop == offScreen(x, y) \/ tooClose(Gr.helperWells, x, y)
  IN [Gr EXCEPT
        !.player.x = x \div SimRate, !.player.y = y \div SimRate,
        !.player.vx = vx, !.player.vy = vy,
        !.sim = [s EXCEPT
                   !.x = x, !.y = y, !.vx = vx, !.vy = vy,
                   !.i = IF stop THEN @ ELSE @ + 1,
                   !.running = ~stop,
                   !.phase = "force"]]

\* simulateTrajectory, second half of an iteration: the forces change the
\* velocity, the velocity moves the position, and the loop is left when the
\* new position is off the bounds or closer to a well than its radius
simulateMove(Gr) ==
  LET s == Gr.sim
      vx == s.vx + s.kick.x
      vy == s.vy + s.kick.y
      x == s.x + vx
      y == s.y + vy
      stop == offScreen(x, y) \/ tooClose(Gr.helperWells, x, y)
  IN [Gr EXCEPT
        !.sim = [s EXCEPT
                   !.x = x, !.y = y, !.vx = vx, !.vy = vy,
                   !.i = IF stop THEN @ ELSE @ + 1,
                   !.running = ~stop,
                   !.phase = "force"]]

NoSimulation ==
  [x |-> 0, y |-> 0, vx |-> 0, vy |-> 0, i |-> 0, steps |-> 0,
   points |-> <<>>, running |-> FALSE,
   kick |-> [x |-> 0, y |-> 0], phase |-> "force",
   start |-> [x |-> 0, y |-> 0, vx |-> 0, vy |-> 0]]

\* TrajectoryHelper.showTrajectory up to the loop of simulateTrajectory
showTrajectory(Gr, startX, startY, velocityX, velocityY, steps) ==
  [Gr EXCEPT
     !.isVisible = TRUE,
     !.pc = "loop",
     !.sim = [x |-> startX * SimRate, y |-> startY * SimRate,
              vx |-> velocityX, vy |-> velocityY, i |-> 0, steps |-> steps,
              points |-> <<>>, running |-> TRUE,
              kick |-> [x |-> 0, y |-> 0], phase |-> "force",
              start |-> [x |-> startX, y |-> startY,
                         vx |-> velocityX, vy |-> velocityY]]]

\* TrajectoryHelper.showTrajectory after simulateTrajectory has returned:
\* fewer than 2 points are not drawn, a drawing is hidden after 3 s.
\* returned keeps the start and the points of every call, and where the
\* simulated body was when the loop ended
showTrajectoryDraw(Gr) ==
  [Gr EXCEPT
     !.pc = "idle",
     !.sim = NoSimulation,
     !.hides = IF Len(Gr.sim.points) < 2 THEN @
               ELSE Append(@, trajectoryHideDelay),
     !.returned = Append(@, [start |-> Gr.sim.start,
                             points |-> Gr.sim.points,
                             steps |-> Gr.sim.steps,
                             x |-> Gr.sim.x, y |-> Gr.sim.y])]

\* GameScene.updateTrajectoryHelper(time)
updateTrajectoryHelper(Gr, time) ==
  IF time - Gr.lastTrajectoryTime < trajectoryCooldown THEN Gr
  ELSE LET G1 == [Gr EXCEPT !.lastTrajectoryTime = time]
           P == Gr.player
       IN IF /\ P.vx * P.vx + P.vy * P.vy
                  > (trajectorySpeed * VelScale) * (trajectorySpeed * VelScale)
             /\ Len(Gr.wells) > 0
          THEN showTrajectory([G1 EXCEPT !.helperWells = Gr.wells],
                              P.x, P.y, P.vx, P.vy, trajectorySteps)
          ELSE G1

\* the clock of the scene, as far as the helper goes: the delayed calls of
\* showTrajectory that are due run hideTrajectory
hideTrajectory(Gr, delta) ==
  LET left == [k \in 1..Len(Gr.hides) |-> Gr.hides[k] - delta]
      due == \E k \in 1..Len(left) : left[k] <= 0
  IN [Gr EXCEPT
        !.hides = SelectSeq(left, LAMBDA rem : rem > 0),
        !.isVisible = IF due THEN FALSE ELSE @]

\* level 3 just begun, the player at the station with nobody in tow and
\* drifting, no prediction made yet
InitTrajectory ==
  /\ level = 3
  /\ towedAstronauts = <<>>
  /\ rescueTargets = [i \in 1..Level3Targets |-> i]
  /\ rescues = DeliveredBefore(3)
  /\ totalAstronautsRescued = DeliveredBefore(3)
  /\ score = RescueBonus * rescues + DeliveryBonus * totalAstronautsRescued
  /\ mass = BaseMass
  /\ fuel = FuelFull
  /\ timeRemaining = Level3Time
  /\ MissionIdle
  /\ pod = "none"
  /\ structure = "none"
  /\ bodies = "none"
  /\ educationalOverlay = "none"
  /\ \E v \in TrajectoryStartV :
       gravity = [player |-> [x |-> StationX * VelScale, y |-> StationY * VelScale,
                              vx |-> v[1] * VelScale, vy |-> v[2] * VelScale,
                              thrust |-> [x |-> 0, y |-> 0],
                              isThrusting |-> FALSE],
                  wells |-> Level3Wells,
                  helperWells |-> <<>>,
                  time |-> 0,
                  lastTrajectoryTime |-> 0,
                  isVisible |-> FALSE,
                  hides |-> <<>>,
                  pc |-> "idle",
                  sim |-> NoSimulation,
                  returned |-> <<>>,
                  frames |-> 0]

\* a frame of level 3 with no key down and no debris in range, up to the
\* last statement of GameScene.update: the clock of the scene (the 1-second
\* timer, the delayed calls of the helper), then handleInput, player.update
\* and checkGameState
TrajectoryFrame ==
  /\ gravity.pc = "idle"
  /\ gravity.frames < MaxTrajectoryFrames
  /\ gameStarted
  /\ \E delta \in TrajectoryDeltas :
       LET S0 == [Scene EXCEPT !.timerElapsed = @ + delta]
           S1 == IF S0.timerElapsed >= TimerDelay
                 THEN timerCallback([S0 EXCEPT !.timerElapsed = @ - TimerDelay])
                 ELSE S0
           S2 == update(S1, delta, FALSE, FALSE, {}, NearStation(gravity.player))
       IN /\ Commit(S2)
          /\ gravity' = [hideTrajectory(gravity, delta) EXCEPT
                           !.time = @ + delta,
                           !.frames = @ + 1,
                           !.pc = "helper",
                           !.player = PodUpdate(@, S1.fuel, S1.mass, delta,
                                                [d \in Directions |-> FALSE])]
  /\ UNCHANGED <<pc, frames, tick, pod, structure, bodies, educationalOverlay>>

\* the last statement of GameScene.update: updateTrajectoryHelper(time) at
\* level 3 while the player is not thrusting
UpdateTrajectoryHelper ==
  /\ gravity.pc = "helper"
  /\ LET after == IF level = 3 /\ gameStarted /\ ~gravity.player.isThrusting
                  THEN updateTrajectoryHelper(gravity, gravity.time)
                  ELSE gravity
     IN gravity' = IF after.pc = "loop" THEN after
                   ELSE [after EXCEPT !.pc = "idle"]
  /\ UNCHANGED <<mission, pod, structure, bodies, educationalOverlay>>

\* the loop of simulateTrajectory goes on: i < steps and no break
LoopRuns ==
  /\ gravity.pc = "loop"
  /\ gravity.sim.running
  /\ gravity.sim.i < gravity.sim.steps

\* the first half of an iteration of simulateTrajectory
SimulateForces ==
  /\ LoopRuns
  /\ gravity.sim.phase = "force"
  /\ gravity' = simulateForces(gravity)
  /\ UNCHANGED <<mission, pod, structure, bodies, educationalOverlay>>

\* the second half of an iteration of simulateTrajectory
SimulateMove ==
  /\ LoopRuns
  /\ gravity.sim.phase = "move"
  /\ gravity' = simulateMove(gravity)
  /\ UNCHANGED <<mission, pod, structure, bodies, educationalOverlay>>

\* simulateTrajectory returns and showTrajectory draws the points
ShowTrajectoryDraw ==
  /\ gravity.pc = "loop"
  /\ ~LoopRuns
  /\ gravity' = showTrajectoryDraw(gravity)
  /\ UNCHANGED <<mission, pod, structure, bodies, educationalOverlay>>

NextTrajectory ==
  \/ TrajectoryFrame
  \/ UpdateTrajectoryHelper
  \/ SimulateForces
  \/ SimulateMove
  \/ ShowTrajectoryDraw

SpecTrajectory == InitTrajectory /\ [][NextTrajectory]_vars

\* a call of showTrajectory runs to its end once entered: nothing else is
\* interleaved with it
SpecTrajectoryFair ==
  /\ SpecTrajectory
  /\ WF_vars(UpdateTrajectoryHelper)
  /\ WF_vars(SimulateForces)
  /\ WF_vars(SimulateMove)
  /\ WF_vars(ShowTrajectoryDraw)

\* a point is inside the bounds and not closer to any well than its radius
PointClear(wells, p) == ~offScreen(p.x, p.y) /\ ~tooClose(wells, p.x, p.y)

\* the points pushed so far, or returned, are at most steps and all but the
\* first are clear
PointsBounded(wells, points, steps) ==
  /\ Len(points) <= steps
  /\ \A k \in 2..Len(points) : PointClear(wells, points[k])

\* C26: a call of updateTrajectoryHelper comes to its end, so
\* simulateTrajectory terminates, and it returns at most steps points;
\* every returned point after the first is inside [-100,900] x [-100,700]
\* and outside every well's radius, and a sequence shorter than steps ended
\* where the simulated position was off the bounds or within a radius.
C26_SimulationBounded ==
  /\ [](/\ PointsBounded(gravity.helperWells, gravity.sim.points, gravity.sim.steps)
        /\ \A k \in 1..Len(gravity.returned) :
             LET r == gravity.returned[k]
             IN /\ PointsBounded(gravity.wells, r.points, r.steps)
                /\ Len(r.points) >= 1
                /\ Len(r.points) < r.steps => ~PointClear(gravity.wells, r))
  /\ (gravity.pc \in {"helper", "loop"}) ~> (gravity.pc = "idle")

\* C26 witness: one call has returned after steps points, one after leaving
\* the bounds and one after coming within the radius of a well
C26_Witness ==
  /\ \E k \in 1..Len(gravity.returned) :
       Len(gravity.returned[k].points) = trajectorySteps
  /\ \E k \in 1..Len(gravity.returned) :
       /\ Len(gravity.returned[k].points) < trajectorySteps
       /\ offScreen(gravity.returned[k].x, gravity.returned[k].y)
  /\ \E k \in 1..Len(gravity.returned) :
       /\ Len(gravity.returned[k].points) < trajectorySteps
       /\ tooClose(gravity.wells, gravity.returned[k].x, gravity.returned[k].y)

\* a step of the prediction: updateTrajectoryHelper, showTrajectory or an
\* iteration of simulateTrajectory
PredictionStep == gravity.pc \in {"helper", "loop"}

\* calls that started from the same position and velocity returned the same
\* points
SameStartSamePoints(returned) ==
  \A a, b \in 1..Len(returned) :
    returned[a].start = returned[b].start =>
      returned[a].points = returned[b].points

\* C27: no step of updateTrajectoryHelper, showTrajectory and
\* simulateTrajectory changes the player's position, velocity or mass, the
\* wells, or the score, fuel, timeRemaining, level and target sets of the
\* mission, and two calls from the same start with the same wells return the
\* same sequence of points.
C27_PredictionAdvisory ==
  [][PredictionStep =>
       /\ gravity'.player = gravity.player
       /\ gravity'.wells = gravity.wells
       /\ UNCHANGED <<mass, score, fuel, timeRemaining, level, rescueTargets,
                      towedAstronauts, totalAstronautsRescued>>
       /\ SameStartSamePoints(gravity'.returned)]_vars

\* C27 witness: the player has come back to where an earlier prediction was
\* made, with the same velocity, and the prediction has been made again
C27_Witness ==
  /\ gravity.pc = "idle"
  /\ \E a, b \in 1..Len(gravity.returned) :
       /\ a < b
       /\ gravity.returned[a].start = gravity.returned[b].start
       /\ Len(gravity.returned[b].points) > 1
  /\ gravity.player.x = gravity.returned[Len(gravity.returned)].start.x

\* a tick of the mission whose rescue attempt has nothing to act on: no
\* active target within rescueRange, and nobody in tow or the station out of
\* stationRange
EmptyAttempt ==
  /\ frames' = frames + 1
  /\ tick'.ran
  /\ tick'.attempt
  /\ tick'.inRange = 0
  /\ tick'.carried = 0 \/ ~tick'.station

\* C28: a rescue attempt with no target in range and nobody in tow, or away
\* from the station, leaves score, mass, the active targets, the towed
\* targets and the level as they were, and the fuel as a tick without an
\* attempt leaves it: unchanged but for the thrust of the tick.
C28_EmptyAttemptNoOp ==
  [][EmptyAttempt =>
       /\ UNCHANGED <<score, mass, rescueTargets, towedAstronauts, level,
                      totalAstronautsRescued, rescues>>
       /\ fuel' = IF tick'.thrusting THEN consumeFuel(fuel, FrameDelta) ELSE fuel]_vars

\* C28 witness: SPACE was pressed with a target in tow, away from the station
\* and from every active target, while targets were still to be rescued, and
\* the tick burnt no fuel
C28_Witness ==
  /\ tick.ran
  /\ tick.attempt
  /\ tick.inRange = 0
  /\ tick.carried > 0
  /\ ~tick.station
  /\ ~tick.thrusting
  /\ Len(towedAstronauts) = tick.carried
  /\ Len(rescueTargets) > 0

\* C29: resolveCollision called on two bodies at the same position (distance
\* 0) returns before it normalises: the velocity and the position of both
\* bodies are what they were, and no denominator of the model becomes 0.
C29_ZeroDistanceNoOp ==
  [][(bodies'.updates = bodies.updates + 1 /\ bodies'.last.called
        /\ bodies'.last.distance = 0) =>
       /\ bodies'.a = bodies.a
       /\ bodies'.b = bodies.b
       /\ bodies'.den = bodies.den
       /\ bodies'.pden = bodies.pden
       /\ bodies'.den # 0
       /\ bodies'.pden # 0]_vars

\* C29 witness: resolveCollision has been called on two moving bodies of
\* unequal mass at the same position
C29_Witness ==
  /\ bodies.last.called
  /\ bodies.last.distance = 0
  /\ bodies.a.x = bodies.b.x
  /\ bodies.a.y = bodies.b.y
  /\ bodies.last.avx # bodies.last.bvx
  /\ bodies.a.mass # bodies.b.mass

\* ---------------------------------------------------------------------
\* PlayerPod: increaseMass, decreaseMass and resetMass called in any order.
\* The mass is kept in 1 / MassScale, which holds the floor 0.5 and the
\* amounts 0.5 and 2 as whole numbers.
\* ---------------------------------------------------------------------

\* calls explored from the initial state
MaxMassCalls == 4

MassScale == 2

\* amounts of increaseMass, in 1 / MassScale: 0.5 and 2
IncreaseAmounts == {1, MassIncrement * MassScale}

\* amounts of decreaseMass, in 1 / MassScale: negative, zero, less than the
\* mass, and more than any mass reached
DecreaseAmounts == {-1, 0, 1, 3, 100}

\* a decrease without the floor
decreaseMass_noFloor(m, amount) == m - amount

\* PlayerPod.decreaseMass(amount): Math.max(0.5, mass - amount)
decreaseMass(m, amount) == Max(MassScale \div 2, m - amount)

NoMassCall == [op |-> "none", amount |-> 0, before |-> 0]

\* a pod as constructed: mass 1.0
InitMass ==
  /\ MissionAtStart
  /\ pod = [mass |-> BaseMass * MassScale, calls |-> 0, last |-> NoMassCall]
  /\ structure = "none"
  /\ bodies = "none"
  /\ gravity = "none"
  /\ educationalOverlay = "none"

IncreaseMass ==
  /\ pod.calls < MaxMassCalls
  /\ \E amount \in IncreaseAmounts :
       pod' = [mass |-> increaseMass(pod.mass, amount),
               calls |-> pod.calls + 1,
               last |-> [op |-> "increaseMass", amount |-> amount,
                         before |-> pod.mass]]
  /\ UNCHANGED <<mission, structure, bodies, gravity, educationalOverlay>>

DecreaseMass ==
  /\ pod.calls < MaxMassCalls
  /\ \E amount \in DecreaseAmounts :
       pod' = [mass |-> decreaseMass(pod.mass, amount),
               calls |-> pod.calls + 1,
               last |-> [op |-> "decreaseMass", amount |-> amount,
                         before |-> pod.mass]]
  /\ UNCHANGED <<mission, structure, bodies, gravity, educationalOverlay>>

ResetMass ==
  /\ pod.calls < MaxMassCalls
  /\ pod' = [mass |-> resetMass(pod.mass) * MassScale,
             calls |-> pod.calls + 1,
             last |-> [op |-> "resetMass", amount |-> 0, before |-> pod.mass]]
  /\ UNCHANGED <<mission, structure, bodies, gravity, educationalOverlay>>

NextMass ==
  \/ IncreaseMass
  \/ DecreaseMass
  \/ ResetMass

SpecMass == InitMass /\ [][NextMass]_vars

\* C30: after any sequence of increaseMass with positive amounts, decreaseMass
\* with any amount and resetMass, the mass is at least 0.5.
C30_MassFloor == 2 * pod.mass >= MassScale

\* C30 witness: the mass was above 1.0 and decreaseMass was called with more
\* than it: the mass is 0.5
C30_Witness ==
  /\ pod.last.op = "decreaseMass"
  /\ pod.last.before > BaseMass * MassScale
  /\ pod.last.amount > pod.last.before
  /\ 2 * pod.mass = MassScale

----------------------------------------------------------------------------
(* The number of levels *)

\* C31: the game has four progressive levels: the mission is won from a
\* fourth level, entered after level 3 is completed.
C31_FourthLevelBeforeWin ==
  [][(outcome # "won" /\ outcome' = "won") => level = 4]_vars

----------------------------------------------------------------------------
(* MovingPlatform.update: the motion between startPoint and endPoint.       *)
(* Positions are in 1/PlatformScale px, so that the step of one tick,       *)
(* moveSpeed * delta * 0.01 px, is the integer moveSpeed * delta.  The      *)
(* segments are chosen with an integer length, so that normalize() and the  *)
(* three distances are exact.                                               *)

\* ticks of update explored
MaxPlatformTicks == 6

PlatformScale == 100

\* the constructor's default moveSpeed
moveSpeed == 1

\* frame lengths in ms: regular frames and a long one
PlatformDeltas == {50, 100, 250}

\* the constructor's (x, y) and (endX, endY)
PlatformSegments ==
  {[startPoint |-> <<10000, 10000>>, endPoint |-> <<10300, 10400>>],
   [startPoint |-> <<10000, 10000>>, endPoint |-> <<10500, 10000>>]}

\* the square of Phaser.Math.Distance.Between
distanceSquared(p, q) == (p[1] - q[1]) * (p[1] - q[1]) + (p[2] - q[2]) * (p[2] - q[2])

\* the platform's moveVector after normalize() and scale(): a zero vector
\* stays zero
moveVector(P, delta) ==
  LET dx == P.endPoint[1] - P.startPoint[1]
      dy == P.endPoint[2] - P.startPoint[2]
      len == sqrt(dx * dx + dy * dy)
  IN IF len = 0 THEN <<0, 0>>
     ELSE <<(dx * moveSpeed * delta) \div len, (dy * moveSpeed * delta) \div len>>

\* distanceToStart > totalDistance || distanceToEnd > totalDistance, compared
\* through the squares
pastEndpoint(P, at) ==
  LET total == distanceSquared(P.startPoint, P.endPoint)
  IN \/ distanceSquared(at, P.startPoint) > total
     \/ distanceSquared(at, P.endPoint) > total

\* MovingPlatform.update(time, delta)
platformUpdate(P, delta) ==
  IF ~P.isActive THEN P
  ELSE LET mv == moveVector(P, delta)
           at == <<P.at[1] + mv[1] * P.currentDirection,
                   P.at[2] + mv[2] * P.currentDirection>>
       IN [P EXCEPT !.at = at,
                    !.currentDirection = IF pastEndpoint(P, at) THEN -@ ELSE @]

\* a platform as constructed: at its start point, moving forward, active
InitPlatform ==
  /\ MissionAtStart
  /\ pod = "none"
  /\ bodies = "none"
  /\ gravity = "none"
  /\ educationalOverlay = "none"
  /\ \E seg \in PlatformSegments :
       structure = [startPoint |-> seg.startPoint, endPoint |-> seg.endPoint,
                    at |-> seg.startPoint, currentDirection |-> 1,
                    isActive |-> TRUE, ticks |-> 0, delta |-> 0]

\* one frame: update(time, delta)
PlatformUpdate ==
  /\ structure.ticks < MaxPlatformTicks
  /\ \E delta \in PlatformDeltas :
       structure' = [platformUpdate(structure, delta)
                       EXCEPT !.ticks = @ + 1, !.delta = delta]
  /\ UNCHANGED <<mission, pod, bodies, gravity, educationalOverlay>>

\* setActive(active)
PlatformSetActive ==
  /\ \E active \in BOOLEAN :
       /\ active # structure.isActive
       /\ structure' = [structure EXCEPT !.isActive = active]
  /\ UNCHANGED <<mission, pod, bodies, gravity, educationalOverlay>>

NextPlatform ==
  \/ PlatformUpdate
  \/ PlatformSetActive

SpecPlatform == InitPlatform /\ [][NextPlatform]_vars

\* the square of the platform's distance to the farther endpoint: above the
\* square of the segment's length exactly when the platform is off the
\* segment
farther(P) ==
  Max(distanceSquared(P.at, P.startPoint), distanceSquared(P.at, P.endPoint))

outside(P) == pastEndpoint(P, P.at)

\* the segment's length plus one step of this tick, squared
reach(P, delta) ==
  LET total == sqrt(distanceSquared(P.startPoint, P.endPoint))
  IN (total + moveSpeed * delta) * (total + moveSpeed * delta)

\* C32: for every sequence of deltas, a tick of an active platform that takes
\* it past an endpoint reverses the direction and overshoots by at most the
\* tick's step; a tick that starts past an endpoint moves the platform
\* towards the segment, and does not reverse the direction again if the
\* platform is still past the endpoint after it.
C32_PingPong ==
  [][(structure'.ticks = structure.ticks + 1 /\ structure.isActive) =>
       /\ (~outside(structure) /\ outside(structure')) =>
            /\ structure'.currentDirection = -structure.currentDirection
            /\ farther(structure') <= reach(structure, structure'.delta)
       /\ (~outside(structure) /\ ~outside(structure')) =>
            structure'.currentDirection = structure.currentDirection
       /\ outside(structure) =>
            /\ farther(structure') < farther(structure)
            /\ outside(structure') =>
                 structure'.currentDirection = structure.currentDirection]_vars

----------------------------------------------------------------------------
(* Debris.handleCollision on its own: a debris and another body, with the   *)
(* velocities of both carried over the common denominator den.  Before a    *)
(* call the velocities and den are multiplied by totalMass, so that the     *)
(* division of handleCollision is exact.  Masses are whole numbers: only    *)
(* their ratio enters the formulas.                                         *)

\* calls of handleCollision explored for a pair
MaxElasticCalls == 2

ElasticMasses == {1, 2, 3}

ElasticDebrisV == {<<10, 0>>, <<0, -4>>, <<3, 7>>}

ElasticOtherV == {<<-5, 0>>, <<6, 2>>, <<0, 0>>}

InitElastic ==
  /\ MissionAtStart
  /\ pod = "none"
  /\ structure = "none"
  /\ gravity = "none"
  /\ educationalOverlay = "none"
  /\ \E dm \in ElasticMasses, om \in ElasticMasses,
        dv \in ElasticDebrisV, ov \in ElasticOtherV :
       bodies = [debris |-> [mass |-> dm, vx |-> dv[1], vy |-> dv[2]],
                 other |-> [mass |-> om, vx |-> ov[1], vy |-> ov[2]],
                 den |-> 1, calls |-> 0,
                 start |-> [dvx |-> dv[1], ovx |-> ov[1]]]

\* other = debris.handleCollision(otherVelocity, otherMass), the returned
\* velocity stored for the other body as checkCollisions does
HandleCollision ==
  /\ bodies.calls < MaxElasticCalls
  /\ LET totalMass == bodies.debris.mass + bodies.other.mass
         D == [bodies.debris EXCEPT !.vx = @ * totalMass, !.vy = @ * totalMass]
         hit == handleCollision(D, [x |-> bodies.other.vx * totalMass,
                                    y |-> bodies.other.vy * totalMass],
                                bodies.other.mass)
     IN bodies' = [bodies EXCEPT !.debris = hit.debris,
                                 !.other.vx = hit.other.x,
                                 !.other.vy = hit.other.y,
                                 !.den = @ * totalMass,
                                 !.calls = @ + 1]
  /\ UNCHANGED <<mission, pod, structure, gravity, educationalOverlay>>

NextElastic == HandleCollision

SpecElastic == InitElastic /\ [][NextElastic]_vars

\* total momentum of the pair on the two axes, times den
momentumX(W) == W.debris.mass * W.debris.vx + W.other.mass * W.other.vx

momentumY(W) == W.debris.mass * W.debris.vy + W.other.mass * W.other.vy

\* C33: Debris.handleCollision conserves the total momentum on each axis:
\* m_debris * v_debris + m_other * v_other is the same before and after the
\* call, with the velocity the debris stores and the one it returns.
C33_ElasticMomentum ==
  [][bodies'.calls = bodies.calls + 1 =>
       /\ momentumX(bodies') * bodies.den = momentumX(bodies) * bodies'.den
       /\ momentumY(bodies') * bodies.den = momentumY(bodies) * bodies'.den]_vars

\* C33 witness: masses 1 and 2 with velocities (10, 0) and (-5, 0) have
\* collided: the debris has (-10, 0), the other body (5, 0), total 0
C33_Witness ==
  /\ bodies.calls = 1
  /\ bodies.debris.mass = 1 /\ bodies.other.mass = 2
  /\ bodies.start.dvx = 10 /\ bodies.start.ovx = -5
  /\ bodies.debris.vx = -10 * bodies.den /\ bodies.debris.vy = 0
  /\ bodies.other.vx = 5 * bodies.den /\ bodies.other.vy = 0
  /\ momentumX(bodies) = 0

----------------------------------------------------------------------------
(* The score over the session *)

\* C34: the score is 100 per successful rescue plus 50 per delivered target
\* in every state; it never decreases, and the only steps that change it are
\* the ticks with a rescue attempt, by 100 per target rescued and 50 per
\* target delivered on the tick: a step of the timer, of a delayed call
\* (win, fail, level complete), of a tween (level advance) or of an input
\* handler, and a tick that rescues and delivers nothing (thrust or not),
\* leave it as it is.
C34_ScoreLedger ==
  /\ [](score = RescueBonus * rescues + DeliveryBonus * totalAstronautsRescued)
  /\ [][score' >= score]_vars
  /\ [][score' # score =>
          /\ pc = "frame" /\ pc' = "idle"
          /\ tick'.ran /\ tick'.attempt
          /\ tick'.rescued + tick'.delivered > 0
          /\ score' - score
               = RescueBonus * tick'.rescued + DeliveryBonus * tick'.delivered]_vars
  /\ [][(pc' = pc \/ tick'.rescued + tick'.delivered = 0) => score' = score]_vars

\* C34 witness: level 3 was entered by a level advance (an initial state of
\* level 3 has at least 16 targets delivered), the timer has fired since, and
\* the score is that of the 13 targets of levels 1 and 2 plus one rescue
C34_Witness ==
  /\ level = 3
  /\ timeRemaining < Level3Time
  /\ rescues = Level1Targets + Level2Targets + 1
  /\ score = (RescueBonus + DeliveryBonus) * (Level1Targets + Level2Targets) + RescueBonus

----------------------------------------------------------------------------
(* Where the targets of a level are *)

\* the targets of an array, as a set
Members(targets) == {targets[i] : i \in 1..Len(targets)}

\* no target is twice in the array
NoDuplicates(targets) == Cardinality(Members(targets)) = Len(targets)

\* C35: within a level every seeded target is in the active array, in the
\* towed array or delivered.  No target is in both arrays or twice in one,
\* and both hold targets of the level's seed only; a step within the level
\* keeps |active| + |towed| + delivered, moves targets out of the active
\* array into the towed array only, never into the active array, and out of
\* the towed array by a delivery only; a level begins with its seeded count
\* (8, 5, 6) active and nothing towed.
C35_TargetsAccounted ==
  /\ [](/\ NoDuplicates(rescueTargets)
        /\ NoDuplicates(towedAstronauts)
        /\ Members(rescueTargets) \cap Members(towedAstronauts) = {}
        /\ Members(rescueTargets) \cup Members(towedAstronauts)
             \subseteq 1..TargetCount(level))
  /\ [][level' = level =>
          /\ Len(rescueTargets') + Len(towedAstronauts') + DeliveredNow
               = Len(rescueTargets) + Len(towedAstronauts)
          /\ DeliveredNow >= 0
          /\ Members(rescueTargets') \subseteq Members(rescueTargets)
          /\ Members(towedAstronauts')
               \subseteq Members(towedAstronauts) \cup Members(rescueTargets)
          /\ Members(rescueTargets) \ Members(rescueTargets')
               \subseteq Members(towedAstronauts')
                           \cup (IF DeliveredNow > 0 THEN Members(rescueTargets) ELSE {})
          /\ ~(Members(towedAstronauts) \subseteq Members(towedAstronauts'))
               => /\ DeliveredNow > 0
                  /\ towedAstronauts' = <<>>]_vars
  /\ [][level' # level =>
          /\ Len(rescueTargets') = TargetCount(level')
          /\ NoDuplicates(rescueTargets')
          /\ towedAstronauts' = <<>>]_vars

\* C35 witness: of the three targets level 1 started with, one is active,
\* one is towed and one has been delivered
C35_Witness ==
  /\ level = 1
  /\ Len(rescueTargets) = 1
  /\ Len(towedAstronauts) = 1
  /\ totalAstronautsRescued = Level1Targets - 2

----------------------------------------------------------------------------
(* The end of the mission *)

\* C36: Won and Failed are terminal and exclude each other: once gameWin or
\* gameOver has taken effect the outcome stays what it is, no further
\* 'Mission Failed' is scheduled, gameStarted is false in every later state,
\* and no step rescues, delivers, advances the level or changes the score.
C36_EndIsFinal ==
  /\ [](outcome # "none" => ~gameStarted)
  /\ [][outcome # "none" =>
          /\ outcome' = outcome
          /\ failScheduled' = failScheduled
          /\ effects' <= effects
          /\ UNCHANGED <<level, score, rescues, totalAstronautsRescued,
                         rescueTargets, towedAstronauts, mass, transition>>]_vars

\* C36 witness: the mission is Won and the scene paused, with a rescue
\* requested after the win and never carried out
C36_Witness ==
  /\ outcome = "won"
  /\ paused
  /\ mobileRescue
  /\ Len(rescueTargets) = 0

----------------------------------------------------------------------------
(* EducationalOverlay with the scene's clock and tween manager.  A          *)
(* container is named by the number of its creation; overlay is the number  *)
(* of the container the field this.overlay refers to, NoOverlay for         *)
(* undefined; containers holds the containers created and not destroyed.    *)
(* The clock's delayed calls fire before the tweens of the same frame       *)
(* complete, and what a callback adds starts counting with the next frame.  *)
(* A delayed auto-hide carries the number of the overlay it was scheduled   *)
(* for, and last records what the last callback did; the code has neither.  *)

\* frames explored from the construction of the overlay
MaxOverlayFrames == 6
\* calls of show explored
MaxShows == 3

\* show: ms before the replacement is created
showDelay == 100
\* createOverlayInternal: ms before an auto-hiding overlay hides
autoHideDelay == 3000
\* hide: duration of the exit animation in ms
hideDuration == 200

\* frame lengths in ms: a regular frame and a long one
OverlayDeltas == {100, 1000}

NoOverlay == 0

NoCallback == [kind |-> "none", target |-> NoOverlay, before |-> NoOverlay,
               visible |-> FALSE]

\* hide()
hide(E) ==
  IF ~E.isVisible \/ E.overlay = NoOverlay THEN E
  ELSE [E EXCEPT !.isVisible = FALSE,
                 !.tweens = Append(@, [target |-> E.overlay, rem |-> hideDuration])]

\* createOverlayInternal(title, description, autoHide): createOverlay puts a
\* new container into this.overlay
createOverlayInternal(E, autoHide) ==
  LET id == E.created + 1
      E1 == [E EXCEPT !.overlay = id,
                      !.containers = @ \cup {id},
                      !.created = id,
                      !.isVisible = TRUE]
  IN IF autoHide
     THEN [E1 EXCEPT !.delayed = Append(@, [kind |-> "autoHide", rem |-> autoHideDelay,
                                            owner |-> id, autoHide |-> TRUE])]
     ELSE E1

\* show(title, description, autoHide)
show(E, autoHide) ==
  IF E.isVisible
  THEN [hide(E) EXCEPT !.delayed = Append(@, [kind |-> "create", rem |-> showDelay,
                                              owner |-> NoOverlay,
                                              autoHide |-> autoHide])]
  ELSE createOverlayInternal(E, autoHide)

\* the callback of a delayed call: the creation delayed by show, or the
\* auto-hide of createOverlayInternal
overlayCallback(E, ev) ==
  IF ev.kind = "create" THEN createOverlayInternal(E, ev.autoHide)
  ELSE IF E.isVisible THEN hide(E)
  ELSE E

\* onComplete of the exit animation: this.overlay?.destroy(); this.overlay =
\* undefined
exitComplete(E) ==
  [E EXCEPT !.containers = @ \ {E.overlay}, !.overlay = NoOverlay]

\* the overlay as constructed, in a scene with nothing pending
InitOverlay ==
  /\ MissionAtStart
  /\ pod = "none"
  /\ structure = "none"
  /\ bodies = "none"
  /\ gravity = "none"
  /\ educationalOverlay =
       [isVisible |-> FALSE, overlay |-> NoOverlay, containers |-> {},
        created |-> 0, delayed |-> <<>>, tweens |-> <<>>,
        pc |-> "idle", frames |-> 0, last |-> NoCallback]

\* a call of show from the scene
OverlayShow ==
  /\ educationalOverlay.pc = "idle"
  /\ educationalOverlay.created + Len(educationalOverlay.delayed) < MaxShows
  /\ \E autoHide \in BOOLEAN :
       educationalOverlay' = [show(educationalOverlay, autoHide)
                                EXCEPT !.last = NoCallback]
  /\ UNCHANGED <<mission, pod, structure, bodies, gravity>>

\* a call of hide: from the scene (gameWin, gameOver, a level advance, a new
\* collision message) or from the key and pointer listeners of an overlay
\* that does not hide by itself
OverlayHide ==
  /\ educationalOverlay.pc = "idle"
  /\ educationalOverlay.isVisible
  /\ educationalOverlay' = [hide(educationalOverlay) EXCEPT !.last = NoCallback]
  /\ UNCHANGED <<mission, pod, structure, bodies, gravity>>

\* a frame begins: the clock and the tween manager advance by its delta
OverlayFrameStart ==
  /\ educationalOverlay.pc = "idle"
  /\ educationalOverlay.frames < MaxOverlayFrames
  /\ \E delta \in OverlayDeltas :
       educationalOverlay' =
         [educationalOverlay EXCEPT !.delayed = advance(@, delta),
                                    !.tweens = advance(@, delta),
                                    !.pc = "frame",
                                    !.frames = @ + 1,
                                    !.last = NoCallback]
  /\ UNCHANGED <<mission, pod, structure, bodies, gravity>>

\* the first due delayed call fires and leaves the clock's list
OverlayDelayedFire ==
  /\ educationalOverlay.pc = "frame"
  /\ DueIndex(educationalOverlay.delayed) # 0
  /\ LET i == DueIndex(educationalOverlay.delayed)
         ev == educationalOverlay.delayed[i]
     IN educationalOverlay' =
          [overlayCallback([educationalOverlay EXCEPT !.delayed = splice(@, i)], ev)
             EXCEPT !.last = [kind |-> ev.kind, target |-> ev.owner,
                              before |-> educationalOverlay.overlay,
                              visible |-> educationalOverlay.isVisible]]
  /\ UNCHANGED <<mission, pod, structure, bodies, gravity>>

\* the first due exit animation completes
OverlayTweenFire ==
  /\ educationalOverlay.pc = "frame"
  /\ DueIndex(educationalOverlay.delayed) = 0
  /\ DueIndex(educationalOverlay.tweens) # 0
  /\ LET i == DueIndex(educationalOverlay.tweens)
     IN educationalOverlay' =
          [exitComplete([educationalOverlay EXCEPT !.tweens = splice(@, i)])
             EXCEPT !.last = [kind |-> "exit",
                              target |-> educationalOverlay.tweens[i].target,
                              before |-> educationalOverlay.overlay,
                              visible |-> educationalOverlay.isVisible]]
  /\ UNCHANGED <<mission, pod, structure, bodies, gravity>>

\* the frame ends with nothing due
OverlayFrameEnd ==
  /\ educationalOverlay.pc = "frame"
  /\ DueIndex(educationalOverlay.delayed) = 0
  /\ DueIndex(educationalOverlay.tweens) = 0
  /\ educationalOverlay' = [educationalOverlay EXCEPT !.pc = "idle"]
  /\ UNCHANGED <<mission, pod, structure, bodies, gravity>>

NextOverlay ==
  \/ OverlayShow
  \/ OverlayHide
  \/ OverlayFrameStart
  \/ OverlayDelayedFire
  \/ OverlayTweenFire
  \/ OverlayFrameEnd

SpecOverlay == InitOverlay /\ [][NextOverlay]_vars

\* a step in which the exit animation of an overlay completes
ExitCompletes ==
  /\ educationalOverlay'.last.kind = "exit"
  /\ Len(educationalOverlay'.tweens) < Len(educationalOverlay.tweens)

\* C37: a container is taken away only by the completion of its own exit
\* animation, which takes away that container and no other (so the exit of a
\* replaced overlay leaves the replacement displayed until a hide applies to
\* it, and the old overlay is removed), and isOverlayVisible() is true only
\* while the container of this.overlay exists.
C37_ReplacementStays ==
  /\ [](educationalOverlay.isVisible =>
          educationalOverlay.overlay \in educationalOverlay.containers)
  /\ [][IF ExitCompletes
        THEN educationalOverlay'.containers
               = educationalOverlay.containers \ {educationalOverlay'.last.target}
        ELSE educationalOverlay.containers \subseteq educationalOverlay'.containers]_vars

\* a step in which a delayed auto-hide fires
AutoHideFires ==
  /\ educationalOverlay'.last.kind = "autoHide"
  /\ Len(educationalOverlay'.delayed) < Len(educationalOverlay.delayed)

\* C38: the auto-hide scheduled for one overlay hides that overlay only: when
\* it fires with that overlay already hidden or replaced (this.overlay is
\* another container, or isVisible is false), nothing is hidden: isVisible
\* and the exit animations stay as they were.
C38_AutoHideOwnOverlay ==
  [][(AutoHideFires
        /\ ~(educationalOverlay.isVisible
               /\ educationalOverlay.overlay = educationalOverlay'.last.target)) =>
       /\ educationalOverlay'.isVisible = educationalOverlay.isVisible
       /\ educationalOverlay'.tweens = educationalOverlay.tweens]_vars

----------------------------------------------------------------------------
(* MomentumLoopAstronaut.canBeRescued.  The player's velocities have a      *)
(* whole-number speed, so that Math.sqrt is exact; momentumDirection, the   *)
(* unit vector of the constructor's momentumAngle, is (x / den, y / den).   *)
(* A division by the speed 0 gives NaN in the source, raises nothing, and   *)
(* every comparison with NaN is false.                                      *)

\* calls of canBeRescued explored for an astronaut
MaxRescueChecks == 2

\* momentumTolerance = 0.3, in 1 / ToleranceScale
ToleranceScale == 10

momentumTolerance == 3

\* the constructor's requiredMomentum: the default and its double
RequiredMomenta == {50, 100}

\* the constructor's momentumAngle as a unit vector: 0, 90 and 180 degrees
\* and the angle of (3, 4)
MomentumDirections ==
  {[x |-> 1, y |-> 0, den |-> 1], [x |-> 0, y |-> 1, den |-> 1],
   [x |-> -1, y |-> 0, den |-> 1], [x |-> 3, y |-> 4, den |-> 5]}

\* player velocities: at rest, speed 50 on and off the axes, the speeds 35
\* and 65 on the edges of the band around 50, and speed 25
PlayerVelocities ==
  {<<0, 0>>, <<50, 0>>, <<-50, 0>>, <<30, 40>>, <<40, 30>>, <<14, 48>>,
   <<21, 28>>, <<39, 52>>, <<15, 20>>}

PlayerMasses == {1, 2}

\* canBeRescued without the test of the direction
canBeRescued_noDirection(A, playerVelocity, playerMass) ==
  IF A.rescued THEN FALSE
  ELSE LET playerSpeed == sqrt(playerVelocity.x * playerVelocity.x
                                 + playerVelocity.y * playerVelocity.y)
           playerMomentum == playerSpeed * playerMass
       IN ToleranceScale * Abs(playerMomentum - A.requiredMomentum)
            < A.requiredMomentum * momentumTolerance

\* canBeRescued(playerVelocity, playerMass).  dotProduct is dot / (playerSpeed
\* * den), NaN when playerSpeed is 0
canBeRescued(A, playerVelocity, playerMass) ==
  IF A.rescued THEN FALSE
  ELSE LET playerSpeed == sqrt(playerVelocity.x * playerVelocity.x
                                 + playerVelocity.y * playerVelocity.y)
           playerMomentum == playerSpeed * playerMass
           isNaN == playerSpeed = 0
           dot == playerVelocity.x * A.momentumDirection.x
                    + playerVelocity.y * A.momentumDirection.y
           momentumMatch ==
             ToleranceScale * Abs(playerMomentum - A.requiredMomentum)
               < A.requiredMomentum * momentumTolerance
           directionMatch ==
             /\ ~isNaN
             /\ ToleranceScale * dot
                  > (ToleranceScale - momentumTolerance) * playerSpeed
                      * A.momentumDirection.den
       IN momentumMatch /\ directionMatch

\* an astronaut as constructed, not rescued, with no call made yet
InitMomentum ==
  /\ MissionAtStart
  /\ pod = "none"
  /\ bodies = "none"
  /\ gravity = "none"
  /\ educationalOverlay = "none"
  /\ \E required \in RequiredMomenta, direction \in MomentumDirections :
       structure = [astronaut |-> [rescued |-> FALSE,
                                   requiredMomentum |-> required,
                                   momentumDirection |-> direction],
                    checks |-> <<>>]

\* a call of canBeRescued, put on record with its arguments and its result
CanBeRescued ==
  /\ Len(structure.checks) < MaxRescueChecks
  /\ \E v \in PlayerVelocities, playerMass \in PlayerMasses :
       structure' =
         [structure EXCEPT
            !.checks = Append(@, [rescued |-> structure.astronaut.rescued,
                                  vx |-> v[1], vy |-> v[2], mass |-> playerMass,
                                  result |-> canBeRescued(structure.astronaut,
                                                          [x |-> v[1], y |-> v[2]],
                                                          playerMass)])]
  /\ UNCHANGED <<mission, pod, bodies, gravity, educationalOverlay>>

\* rescue(): RescueTarget.rescue sets rescued
RescueAstronaut ==
  /\ ~structure.astronaut.rescued
  /\ structure' = [structure EXCEPT !.astronaut.rescued = TRUE]
  /\ UNCHANGED <<mission, pod, bodies, gravity, educationalOverlay>>

NextMomentum ==
  \/ CanBeRescued
  \/ RescueAstronaut

SpecMomentum == InitMomentum /\ [][NextMomentum]_vars

\* |v| * mass differs from requiredMomentum by less than 30 % of it, without
\* the square root: 0.7 * required < |v| * mass < 1.3 * required
MomentumInBand(c, required) ==
  LET p2 == (c.vx * c.vx + c.vy * c.vy) * c.mass * c.mass
      lo == ToleranceScale - momentumTolerance
      hi == ToleranceScale + momentumTolerance
  IN /\ required > 0
     /\ lo * lo * required * required < ToleranceScale * ToleranceScale * p2
     /\ ToleranceScale * ToleranceScale * p2 < hi * hi * required * required

\* the cosine between the velocity and the direction is above 0.7, without
\* the square root; no cosine for a velocity of zero
CosineAbove(c, d) ==
  LET dot == c.vx * d.x + c.vy * d.y
      lo == ToleranceScale - momentumTolerance
  IN /\ dot > 0
     /\ ToleranceScale * ToleranceScale * dot * dot
          > lo * lo * (c.vx * c.vx + c.vy * c.vy) * d.den * d.den

\* C39: canBeRescued returns true exactly when the astronaut is not rescued,
\* the player's momentum |v| * mass is within 30 % of requiredMomentum
\* (strictly) and the cosine between the velocity and the required direction
\* is greater than 0.7; for a velocity of zero it returns false.
C39_MomentumMatch ==
  \A i \in 1..Len(structure.checks) :
    LET c == structure.checks[i]
    IN /\ c.result <=>
            /\ ~c.rescued
            /\ MomentumInBand(c, structure.astronaut.requiredMomentum)
            /\ CosineAbove(c, structure.astronaut.momentumDirection)
       /\ (c.vx = 0 /\ c.vy = 0) => ~c.result

\* C39 witness: the astronaut needs 50 along (3, 4); a player of mass 1 at
\* (40, 30) (momentum 50, cosine 0.96) could rescue, a player at rest could
\* not
C39_Witness ==
  /\ Len(structure.checks) = 2
  /\ structure.astronaut.requiredMomentum = 50
  /\ structure.astronaut.momentumDirection.den = 5
  /\ structure.checks[1].vx = 40 /\ structure.checks[1].vy = 30
  /\ structure.checks[1].mass = 1 /\ structure.checks[1].result
  /\ structure.checks[2].vx = 0 /\ structure.checks[2].vy = 0
  /\ ~structure.checks[2].rescued /\ ~structure.checks[2].result

====
